---- MODULE Spec2Model ----
(***************************************************************************)
(* Cofounder backend: the Sandbox Execution Engine                         *)
(* (services/sandbox/docker_manager.py), the Phase Orchestrator            *)
(* (services/orchestrator/pipeline.py, main.py) and the conversation       *)
(* history builder, as state machines.                                     *)
(*                                                                         *)
(* Texts are sequences of pieces (strings); the text is the concatenation  *)
(* of its pieces, so "".join(xs) is the concatenation of sequences.        *)
(***************************************************************************)
EXTENDS Integers, Sequences, FiniteSets, TLC

\* ------------------------------------------------------------------ bounds

\* lines a container prints at most
MaxLines == 2
\* runSandbox calls made on the manager, one after the other
MaxCalls == 2
\* settings.sandbox_timeout, in clock ticks
SandboxTimeout == 2

\* characters by which a log text is shorter or longer than the cap, at most
MaxOver == 20
\* the retries a caller of chatCompletion asks for, at most (the default is 3)
MaxRetries == 4

\* messages the websocket endpoints and handleDecisionResponse handle in all
MaxTurns == 2
\* stored messages the history builder is applied to
MaxStored == 3
\* turns a conversation has behind it when a decision response arrives, at most
MaxEarlier == 6
\* calls of connect, disconnect, sendEvent and broadcast made in all
MaxOps == 4
\* frames that start no turn, received on a connection at most
MaxFrames == 2
\* paragraphs of a text given to the extractor at most
MaxParagraphs == 2
\* calls of the extractor made on one text at most
MaxExtractorCalls == 2

\* uuid4().hex[:8] draws the container name from a finite set
Names == {"cofounder-sandbox-0a", "cofounder-sandbox-0b"}

\* the client the sandbox events go to
SbClient == "default"

\* the text of the i-th chunk the container's log stream yields
LineTexts == <<"test_a PASSED", "test_b FAILED", "1 failed, 1 passed", "done">>

LineText(i) == <<LineTexts[i]>>

VARIABLES
    \* ---- container runtime (Docker daemon)
    daemonUp,           \* the daemon answers
    containers,         \* name -> "absent" | "created" | "running" | "exited"
    createdBy,          \* name -> the call (1..MaxCalls) that created it, 0 if none
    produced,           \* chunks the running call's container has printed
    exitStatus,         \* StatusCode of the running call's container once exited
    \* ---- DockerManager
    dmClient,           \* self._client: "None" | "set" (pinged) | "unpinged"
    available,          \* what isAvailable returned last
    \* ---- runSandbox, the call in flight
    sbPc,
    calls,              \* calls started so far
    containerName,
    readerState,        \* the _readStream worker: "none" | "running" | "ended" | "error"
    allLines,
    lastSent,
    batch,
    allLogs,
    exitCode,
    waited,             \* ticks since wait_for started
    \* ---- what the call did, in order: notifications sent and runtime operations
    sbTrace,
    \* ---- history of the call in flight
    elapsed,            \* ticks since the container started (saturates)
    ranPast,            \* the container was seen running later than SandboxTimeout
    upAtStart,          \* the daemon answered when the call started
    primary,            \* "none" | "exit" | "timeout" | "error": what ended the try block
    cleanup,            \* outcome of the finally block
    killed,             \* container.kill() was called
    \* ---- ConnectionManager
    activeConnections,  \* self._activeConnections: the client ids in insertion order,
                        \* a deleted entry leaving its slot empty
    ops,                \* the calls of connect, disconnect, sendEvent and broadcast
    started,            \* how many of them have started
    websockets,         \* self._activeConnections values: client id -> the connect call
                        \* whose websocket is registered under it, 0 if none
    \* ---- database (committed state)
    dbConversations,    \* conversation id -> phase, for the rows stored
    dbMessages,         \* the rows of the messages table, in insertion order
    fkEnforced,         \* the engine checks foreign keys (PostgreSQL) or not (SQLite)
    txn,                \* SQLite: the open transaction of the one connection all sessions use
    now,                \* the clock read by utcNow
    lastUuid,           \* uuid4 values are fresh: the last one drawn
    \* ---- one websocket connection per client, and the turn it is handling
    turn,
    turns,              \* messages handled so far
    endpoint,           \* per client: the receive loop of websocketEndpoint
    extractor,          \* a text and what the calls of the extractor on it returned
    router,             \* one call of chatCompletion
    \* ---- the history builder applied to a stored sequence
    stored,
    rows,
    builtHistory,
    transcript          \* what getConversation returned last

sandboxVars == <<daemonUp, containers, createdBy, produced, exitStatus, dmClient, available,
                 sbPc, calls, containerName, readerState, allLines, lastSent, batch,
                 allLogs, exitCode, waited, sbTrace, elapsed, ranPast, upAtStart,
                 primary, cleanup, killed>>

dbVars == <<dbConversations, dbMessages, fkEnforced, txn, now, lastUuid>>

turnVars == <<dbVars, turn, turns, endpoint>>

historyVars == <<stored, rows, builtHistory, transcript>>

managerVars == <<ops, started, websockets>>

extractorVars == <<extractor>>

routerVars == <<router>>

vars == <<sandboxVars, activeConnections, managerVars, turnVars, historyVars, extractorVars,
          routerVars>>

\* ------------------------------------------------------------------ texts

TIMEOUT_MARKER == <<"[TIMEOUT] Container exceeded time limit.">>

ErrorLog(msg) == <<"[ERROR] ", msg>>

RUNTIME_UNAVAILABLE == "Docker Desktop is not running. Start Docker Desktop and try again."

RECURSIVE Join(_)
Join(xs) == IF xs = <<>> THEN <<>> ELSE Head(xs) \o Join(Tail(xs))

\* allLogs[-2000:] if len(allLogs) > 2000 else allLogs
TailCap == 2000

\* the tail as it would be without the cap
StderrTailWhole(logs) == logs

StderrTail(logs) ==
    IF Len(logs) > TailCap THEN SubSeq(logs, Len(logs) - TailCap + 1, Len(logs)) ELSE logs

\* ------------------------------------------------------------------ events

Progress(idx, label, status) ==
    [type |-> "execution_progress", step_index |-> idx, step_label |-> label,
     status |-> status]

ProgressChunk(chunk) ==
    [type |-> "execution_progress", step_index |-> 1, step_label |-> "Running tests...",
     status |-> "running", log_chunk |-> chunk]

TestResult(code, logs) ==
    [type |-> "test_result", exit_code |-> code,
     summary |-> IF code = 0 THEN "All tests passed" ELSE "Tests failed",
     stderr_tail |-> StderrTail(logs)]

RuntimeOp(op) == [type |-> "runtime_op", op |-> op]

\* the slot of a deleted entry
Tombstone == ""

\* clientId in self._activeConnections
Registered(clientId) ==
    \E i \in 1..Len(activeConnections) : activeConnections[i] = clientId

\* self._activeConnections.pop(clientId, None)
Pop(reg, clientId) == [i \in 1..Len(reg) |-> IF reg[i] = clientId THEN Tombstone ELSE reg[i]]

\* ConnectionManager.sendEvent: no handle, or the send succeeds: the registry is
\* unchanged; the send raises: the client is dropped. It never raises to the caller.
SendEvent(clientId) ==
    \/ activeConnections' = activeConnections
    \/ /\ Registered(clientId)
       /\ activeConnections' = Pop(activeConnections, clientId)

\* ------------------------------------------------------------------ DockerManager.client

\* The outcomes of reading self.client: ok says whether a client is returned
\* (otherwise RuntimeError is raised), set the value of self._client afterwards.
\* With the daemon down either docker.from_env() raises (the client is not kept)
\* or ping() raises after self._client was assigned: the client is kept although
\* the daemon has not answered it.
ClientAccess ==
    IF dmClient # "None" THEN {[ok |-> TRUE, client |-> dmClient]}
    ELSE IF daemonUp THEN {[ok |-> TRUE, client |-> "set"]}
    ELSE {[ok |-> FALSE, client |-> "None"], [ok |-> FALSE, client |-> "unpinged"]}

\* ------------------------------------------------------------------ runSandbox

SandboxStart ==
    /\ daemonUp \in BOOLEAN
    /\ containers = [n \in Names |-> "absent"]
    /\ createdBy = [n \in Names |-> 0]
    /\ produced = 0
    /\ exitStatus = 0
    /\ dmClient = "None"
    /\ available = "none"
    /\ sbPc = "idle"
    /\ calls = 0
    /\ containerName = "none"
    /\ readerState = "none"
    /\ allLines = <<>>
    /\ lastSent = 0
    /\ batch = <<>>
    /\ allLogs = <<>>
    /\ exitCode = 0
    /\ waited = 0
    /\ sbTrace = <<>>
    /\ elapsed = 0
    /\ ranPast = FALSE
    /\ upAtStart = FALSE
    /\ primary = "none"
    /\ cleanup = "none"
    /\ killed = FALSE

runtimeVars == <<daemonUp, containers, createdBy, produced, exitStatus>>
streamVars == <<readerState, allLines, lastSent, batch>>
clockVars == <<waited, elapsed, ranPast>>
callVars == <<calls, containerName, upAtStart>>

\* notify through manager.sendEvent and record the emission
\* the notification as it would be were it put in front of those sent before
EmitFirst(ev) ==
    /\ sbTrace' = <<ev>> \o sbTrace
    /\ SendEvent(SbClient)

Emit(ev) ==
    /\ sbTrace' = Append(sbTrace, ev)
    /\ SendEvent(SbClient)

\* the handler as it would be were the removal written at the end of the try block
\* instead of in finally: a failed run goes straight to the notifications
FailSkipsFinally(msg) ==
    /\ exitCode' = -1
    /\ allLogs' = ErrorLog(msg)
    /\ primary' = "error"
    /\ sbPc' = "notifyDone"

\* the handler as it would be with the except clause narrowed to DockerException:
\* another error leaves runSandbox
FailEscapes(msg) ==
    /\ exitCode' = exitCode
    /\ allLogs' = allLogs
    /\ primary' = "error"
    /\ sbPc' = IF msg = RUNTIME_UNAVAILABLE THEN "raised" ELSE "finally"

\* except Exception as e: exitCode = -1; allLogs = f"[ERROR] {str(e)}"
Fail(msg) ==
    /\ exitCode' = -1
    /\ allLogs' = ErrorLog(msg)
    /\ primary' = "error"
    /\ sbPc' = "finally"

\* lines 76-87: name the container, notify stage=launching
RunSandbox ==
    /\ sbPc \in {"idle", "done"}
    /\ calls < MaxCalls
    /\ calls' = calls + 1
    /\ \E n \in Names : containerName' = n
    /\ upAtStart' = daemonUp
    /\ sbTrace' = <<Progress(0, "Launching sandbox...", "running")>>
    /\ SendEvent(SbClient)
    /\ sbPc' = "imageGet"
    /\ produced' = 0 /\ exitStatus' = 0
    /\ readerState' = "none" /\ allLines' = <<>> /\ lastSent' = 0 /\ batch' = <<>>
    /\ allLogs' = <<>> /\ exitCode' = 0
    /\ waited' = 0 /\ elapsed' = 0 /\ ranPast' = FALSE
    /\ primary' = "none" /\ cleanup' = "none" /\ killed' = FALSE
    /\ UNCHANGED <<daemonUp, containers, createdBy, dmClient>>
    /\ UNCHANGED <<available, managerVars, turnVars, historyVars, extractorVars, routerVars>>

\* lines 91-103: self.client.images.get(settings.sandbox_image)
ImagesGet ==
    /\ sbPc = "imageGet"
    /\ \E a \in ClientAccess :
        /\ dmClient' = a.client
        /\ \/ /\ ~a.ok
              /\ Fail(RUNTIME_UNAVAILABLE)
              /\ UNCHANGED <<sbTrace, activeConnections>>
           \/ /\ a.ok /\ ~daemonUp
              /\ Fail("connection refused")
              /\ sbTrace' = Append(sbTrace, RuntimeOp("images.get"))
              /\ UNCHANGED activeConnections
           \/ /\ a.ok /\ daemonUp
              /\ \/ /\ sbPc' = "run"
                    /\ sbTrace' = Append(sbTrace, RuntimeOp("images.get"))
                    /\ UNCHANGED <<exitCode, allLogs, primary, activeConnections>>
                 \/ /\ sbPc' = "pull"
                    /\ sbTrace' = sbTrace \o <<RuntimeOp("images.get"),
                                      Progress(0, "Pulling sandbox image...", "running")>>
                    /\ SendEvent(SbClient)
                    /\ UNCHANGED <<exitCode, allLogs, primary>>
                 \/ /\ Fail("image lookup failed")
                    /\ sbTrace' = Append(sbTrace, RuntimeOp("images.get"))
                    /\ UNCHANGED activeConnections
    /\ UNCHANGED <<runtimeVars, streamVars, clockVars, callVars, cleanup, killed>>
    /\ UNCHANGED <<available, managerVars, turnVars, historyVars, extractorVars, routerVars>>

\* line 104: self.client.images.pull(settings.sandbox_image) is called. It is a
\* plain call of the blocking client inside the coroutine: until it returns, the
\* thread of the event loop is inside it
ImagesPull ==
    /\ sbPc = "pull"
    /\ sbTrace' = Append(sbTrace, RuntimeOp("images.pull"))
    /\ sbPc' = "pulling"
    /\ UNCHANGED <<runtimeVars, streamVars, clockVars, callVars, cleanup, killed,
                   dmClient, activeConnections, exitCode, allLogs, primary>>
    /\ UNCHANGED <<available, managerVars, turnVars, historyVars, extractorVars, routerVars>>

\* the event loop can run a step of a coroutine (of a turn, a receive loop, a
\* request): its thread is not held by a blocking call
LoopFree == sbPc # "pulling"

\* line 104: images.pull returns or raises
ImagesPulled ==
    /\ sbPc = "pulling"
    /\ \/ /\ daemonUp
          /\ sbPc' = "run"
          /\ UNCHANGED <<exitCode, allLogs, primary>>
       \/ Fail(IF daemonUp THEN "pull access denied" ELSE "connection refused")
    /\ UNCHANGED <<runtimeVars, streamVars, clockVars, callVars, cleanup, killed,
                   dmClient, activeConnections, sbTrace>>
    /\ UNCHANGED <<available, managerVars, turnVars, historyVars, extractorVars, routerVars>>

\* lines 107-141: self.client.containers.run(detach=True), notify stage=running
ContainersRun ==
    /\ sbPc = "run"
    /\ \/ \* created and started
          /\ daemonUp /\ containers[containerName] = "absent"
          /\ containers' = [containers EXCEPT ![containerName] = "running"]
          /\ createdBy' = [createdBy EXCEPT ![containerName] = calls]
          /\ sbTrace' = sbTrace \o <<RuntimeOp("containers.run"),
                                      Progress(1, "Running tests...", "running")>>
          /\ SendEvent(SbClient)
          /\ sbPc' = "streamStart"
          /\ UNCHANGED <<exitCode, allLogs, primary>>
       \/ \* created, and the start fails
          /\ daemonUp /\ containers[containerName] = "absent"
          /\ containers' = [containers EXCEPT ![containerName] = "created"]
          /\ createdBy' = [createdBy EXCEPT ![containerName] = calls]
          /\ sbTrace' = Append(sbTrace, RuntimeOp("containers.run"))
          /\ Fail("cannot start container")
          /\ UNCHANGED activeConnections
       \/ \* nothing created: the daemon is down, or the name is taken
          /\ ~daemonUp \/ containers[containerName] # "absent"
          /\ sbTrace' = Append(sbTrace, RuntimeOp("containers.run"))
          /\ Fail(IF daemonUp THEN "Conflict. The container name is already in use"
                               ELSE "connection refused")
          /\ UNCHANGED <<containers, createdBy, activeConnections>>
    /\ UNCHANGED <<daemonUp, produced, exitStatus, streamVars, clockVars, callVars,
                   cleanup, killed, dmClient>>
    /\ UNCHANGED <<available, managerVars, turnVars, historyVars, extractorVars, routerVars>>

\* ------------------------------------------------------------------ _streamLogs

\* lines 225-237: allLines = [], the worker thread is started, lastSent = 0
StreamStart ==
    /\ sbPc = "streamStart"
    /\ readerState' = "running"
    /\ allLines' = <<>>
    /\ lastSent' = 0
    /\ batch' = <<>>
    /\ sbPc' = "loopTest"
    /\ UNCHANGED <<runtimeVars, clockVars, callVars, dmClient, allLogs, exitCode,
                   sbTrace, primary, cleanup, killed, activeConnections>>
    /\ UNCHANGED <<available, managerVars, turnVars, historyVars, extractorVars, routerVars>>

\* lines 238-239: while not streamTask.done(): await asyncio.sleep(0.5)
LoopTest ==
    /\ sbPc = "loopTest"
    /\ sbPc' = IF readerState = "running" THEN "flushSlice" ELSE "awaitStream"
    /\ UNCHANGED <<runtimeVars, streamVars, clockVars, callVars, dmClient, allLogs,
                   exitCode, sbTrace, primary, cleanup, killed, activeConnections>>
    /\ UNCHANGED <<available, managerVars, turnVars, historyVars, extractorVars, routerVars>>

\* lines 240-241: if len(allLines) > lastSent: batch = "".join(allLines[lastSent:])
FlushSlice ==
    /\ sbPc = "flushSlice"
    /\ IF Len(allLines) > lastSent
         THEN /\ batch' = Join(SubSeq(allLines, lastSent + 1, Len(allLines)))
              /\ sbPc' = "flushLen"
         ELSE /\ batch' = batch
              /\ sbPc' = "loopTest"
    /\ UNCHANGED <<runtimeVars, readerState, allLines, lastSent, clockVars, callVars,
                   dmClient, allLogs, exitCode, sbTrace, primary, cleanup, killed,
                   activeConnections>>
    /\ UNCHANGED <<available, managerVars, turnVars, historyVars, extractorVars, routerVars>>

\* lines 242-252: lastSent = len(allLines), read after the slice was taken while
\* the worker thread may have appended; then the chunk is sent
FlushLen ==
    /\ sbPc = "flushLen"
    /\ lastSent' = Len(allLines)
    /\ Emit(ProgressChunk(batch))
    /\ sbPc' = "loopTest"
    /\ UNCHANGED <<runtimeVars, readerState, allLines, batch, clockVars, callVars,
                   dmClient, allLogs, exitCode, primary, cleanup, killed>>
    /\ UNCHANGED <<available, managerVars, turnVars, historyVars, extractorVars, routerVars>>

\* lines 255-269 and 144-146: await streamTask re-raises the worker's exception;
\* otherwise the remaining lines are flushed and "".join(allLines) is returned
AwaitStream ==
    /\ sbPc = "awaitStream"
    /\ \/ /\ readerState = "error"
          /\ Fail("log stream failed")
          /\ UNCHANGED <<sbTrace, activeConnections, waited>>
       \/ /\ readerState = "ended"
          /\ IF Len(allLines) > lastSent
               THEN Emit(ProgressChunk(Join(SubSeq(allLines, lastSent + 1, Len(allLines)))))
               ELSE UNCHANGED <<sbTrace, activeConnections>>
          /\ allLogs' = Join(allLines)
          /\ waited' = 0
          /\ sbPc' = "wait"
          /\ UNCHANGED <<exitCode, primary>>
    /\ UNCHANGED <<runtimeVars, streamVars, elapsed, ranPast, callVars, dmClient,
                   cleanup, killed>>
    /\ UNCHANGED <<available, managerVars, turnVars, historyVars, extractorVars, routerVars>>

\* lines 227-231, the worker thread: one chunk of the stream is appended
ReadStream ==
    /\ readerState = "running"
    /\ Len(allLines) < produced
    /\ allLines' = Append(allLines, LineText(Len(allLines) + 1))
    /\ UNCHANGED <<runtimeVars, readerState, lastSent, batch, clockVars, callVars,
                   dmClient, sbPc, allLogs, exitCode, sbTrace, primary, cleanup, killed,
                   activeConnections>>
    /\ UNCHANGED <<available, managerVars, turnVars, historyVars, extractorVars, routerVars>>

\* the stream ends (the container stopped, or the daemon closed the stream), or
\* reading it raises because the daemon is gone
ReadStreamEnd ==
    /\ readerState = "running"
    /\ \/ /\ Len(allLines) = produced
          /\ readerState' = "ended"
       \/ /\ ~daemonUp
          /\ readerState' = "error"
    /\ UNCHANGED <<runtimeVars, allLines, lastSent, batch, clockVars, callVars,
                   dmClient, sbPc, allLogs, exitCode, sbTrace, primary, cleanup, killed,
                   activeConnections>>
    /\ UNCHANGED <<available, managerVars, turnVars, historyVars, extractorVars, routerVars>>

\* ------------------------------------------------------------------ wait, timeout, cleanup

\* lines 149-153: container.wait returned within the timeout
WaitExit ==
    /\ sbPc = "wait"
    /\ daemonUp
    /\ containers[containerName] = "exited"
    /\ sbTrace' = Append(sbTrace, RuntimeOp("container.wait"))
    /\ exitCode' = exitStatus
    /\ primary' = "exit"
    /\ sbPc' = "finally"
    /\ UNCHANGED <<runtimeVars, streamVars, clockVars, callVars, dmClient, allLogs,
                   cleanup, killed, activeConnections>>
    /\ UNCHANGED <<available, managerVars, turnVars, historyVars, extractorVars, routerVars>>

\* lines 149-152 and 167-170: container.wait raised
WaitError ==
    /\ sbPc = "wait"
    /\ ~daemonUp
    /\ sbTrace' = Append(sbTrace, RuntimeOp("container.wait"))
    /\ Fail("connection refused")
    /\ UNCHANGED <<runtimeVars, streamVars, clockVars, callVars, dmClient, cleanup,
                   killed, activeConnections>>
    /\ UNCHANGED <<available, managerVars, turnVars, historyVars, extractorVars, routerVars>>

\* lines 155-165: wait_for timed out; container.kill() (its failure is passed over)
WaitTimeout ==
    /\ sbPc = "wait"
    /\ waited >= SandboxTimeout
    /\ containers[containerName] = "running"
    /\ sbTrace' = sbTrace \o <<RuntimeOp("container.wait"), RuntimeOp("container.kill")>>
    /\ killed' = TRUE
    /\ \/ /\ daemonUp
          /\ containers' = [containers EXCEPT ![containerName] = "exited"]
          /\ exitStatus' = 137
       \/ UNCHANGED <<containers, exitStatus>>
    /\ exitCode' = -1
    /\ allLogs' = TIMEOUT_MARKER
    /\ primary' = "timeout"
    /\ sbPc' = "finally"
    /\ UNCHANGED <<daemonUp, createdBy, produced, streamVars, clockVars, callVars,
                   dmClient, cleanup, activeConnections>>
    /\ UNCHANGED <<available, managerVars, turnVars, historyVars, extractorVars, routerVars>>

\* the except clause as it would be were a failed cleanup reported as the result
Surface(outcome) ==
    IF outcome \in {"client_failed", "get_failed", "remove_failed"}
    THEN exitCode' = -1 /\ allLogs' = ErrorLog("cleanup failed")
    ELSE exitCode' = exitCode /\ allLogs' = allLogs

\* lines 178-179: except (NotFound, Exception): pass
Swallow(outcome) == exitCode' = exitCode /\ allLogs' = allLogs

\* lines 172-179: c = self.client.containers.get(containerName); c.remove(force=True);
\* whatever it raises is passed over
Cleanup ==
    /\ sbPc = "finally"
    /\ \E a \in ClientAccess :
        /\ dmClient' = a.client
        /\ \/ /\ ~a.ok
              /\ cleanup' = "client_failed"
              /\ UNCHANGED <<containers, sbTrace>>
           \/ /\ a.ok /\ ~daemonUp
              /\ cleanup' = "get_failed"
              /\ sbTrace' = Append(sbTrace, RuntimeOp("containers.get"))
              /\ UNCHANGED containers
           \/ /\ a.ok /\ daemonUp /\ containers[containerName] = "absent"
              /\ cleanup' = "not_found"
              /\ sbTrace' = Append(sbTrace, RuntimeOp("containers.get"))
              /\ UNCHANGED containers
           \/ /\ a.ok /\ daemonUp /\ containers[containerName] # "absent"
              /\ sbTrace' = sbTrace \o <<RuntimeOp("containers.get"),
                                          RuntimeOp("container.remove")>>
              /\ \/ /\ cleanup' = "removed"
                    /\ containers' = [containers EXCEPT ![containerName] = "absent"]
                 \/ /\ cleanup' = "remove_failed"
                    /\ UNCHANGED containers
    /\ Swallow(cleanup')
    /\ sbPc' = "notifyDone"
    /\ UNCHANGED <<daemonUp, createdBy, produced, exitStatus, streamVars, clockVars,
                   callVars, primary, killed, activeConnections>>
    /\ UNCHANGED <<available, managerVars, turnVars, historyVars, extractorVars, routerVars>>

\* the classification as it would be with every non-negative code passing
StatusNonNegative(code) == IF code >= 0 THEN "passed" ELSE "failed"

\* line 182: status = "passed" if exitCode == 0 else "failed"
Status(code) == IF code = 0 THEN "passed" ELSE "failed"

\* lines 181-193: notify completion
NotifyDone ==
    /\ sbPc = "notifyDone"
    /\ Emit(Progress(2, "Tests complete", Status(exitCode)))
    /\ sbPc' = "notifyResult"
    /\ UNCHANGED <<runtimeVars, streamVars, clockVars, callVars, dmClient, allLogs,
                   exitCode, primary, cleanup, killed>>
    /\ UNCHANGED <<available, managerVars, turnVars, historyVars, extractorVars, routerVars>>

\* lines 195-211: notify test_result, return exit_code, logs, container_id
NotifyResult ==
    /\ sbPc = "notifyResult"
    /\ Emit(TestResult(exitCode, allLogs))
    /\ sbPc' = "done"
    /\ UNCHANGED <<runtimeVars, streamVars, clockVars, callVars, dmClient, allLogs,
                   exitCode, primary, cleanup, killed>>
    /\ UNCHANGED <<available, managerVars, turnVars, historyVars, extractorVars, routerVars>>

\* ------------------------------------------------------------------ the runtime and the clock

InFlight == sbPc \notin {"idle", "done"}

\* the container of the call in flight prints a line
ContainerPrints ==
    /\ InFlight
    /\ containers[containerName] = "running" /\ createdBy[containerName] = calls
    /\ produced < MaxLines
    /\ produced' = produced + 1
    /\ UNCHANGED <<daemonUp, containers, createdBy, exitStatus, dmClient, sbPc, streamVars,
                   clockVars, callVars, allLogs, exitCode, sbTrace, primary, cleanup,
                   killed, activeConnections>>
    /\ UNCHANGED <<available, managerVars, turnVars, historyVars, extractorVars, routerVars>>

\* the container of the call in flight exits
ContainerExits ==
    /\ InFlight
    /\ containers[containerName] = "running" /\ createdBy[containerName] = calls
    /\ containers' = [containers EXCEPT ![containerName] = "exited"]
    /\ \E code \in {0, 1} : exitStatus' = code
    /\ UNCHANGED <<daemonUp, createdBy, produced, dmClient, sbPc, streamVars, clockVars,
                   callVars, allLogs, exitCode, sbTrace, primary, cleanup, killed,
                   activeConnections>>
    /\ UNCHANGED <<available, managerVars, turnVars, historyVars, extractorVars, routerVars>>

\* the daemon stops answering
DaemonStops ==
    /\ InFlight
    /\ daemonUp
    /\ daemonUp' = FALSE
    /\ UNCHANGED <<containers, createdBy, produced, exitStatus, dmClient, sbPc, streamVars,
                   clockVars, callVars, allLogs, exitCode, sbTrace, primary, cleanup,
                   killed, activeConnections>>
    /\ UNCHANGED <<available, managerVars, turnVars, historyVars, extractorVars, routerVars>>

\* time passes while the container of the call runs or the timed wait is pending;
\* the wait's deadline is not passed over: at waited = SandboxTimeout wait_for ends
Tick ==
    /\ InFlight
    /\ LET running == /\ containers[containerName] = "running"
                       /\ createdBy[containerName] = calls
       IN /\ IF sbPc = "wait" THEN waited < SandboxTimeout
                              ELSE running /\ elapsed <= SandboxTimeout
          /\ elapsed' = IF running /\ elapsed <= SandboxTimeout THEN elapsed + 1 ELSE elapsed
          /\ ranPast' = (ranPast \/ (running /\ elapsed >= SandboxTimeout))
          /\ waited' = IF sbPc = "wait" THEN waited + 1 ELSE waited
    /\ UNCHANGED <<runtimeVars, streamVars, callVars, dmClient, sbPc, allLogs, exitCode,
                   sbTrace, primary, cleanup, killed, activeConnections>>
    /\ UNCHANGED <<available, managerVars, turnVars, historyVars, extractorVars, routerVars>>

SandboxNext ==
    \/ RunSandbox \/ ImagesGet \/ ImagesPull \/ ImagesPulled \/ ContainersRun
    \/ StreamStart \/ LoopTest \/ FlushSlice \/ FlushLen \/ AwaitStream
    \/ ReadStream \/ ReadStreamEnd
    \/ WaitExit \/ WaitError \/ WaitTimeout \/ Cleanup \/ NotifyDone \/ NotifyResult
    \/ ContainerPrints \/ ContainerExits \/ DaemonStops \/ Tick

\* ------------------------------------------------------------------ Decision/Finalize extractor

IsSpace(piece) == piece \in {" ", "\n", "\t"}

\* str.lower() on the pieces used; a piece without capital letters is itself
LowerTable ==
    {<<"FINALIZE_ARCHITECTURE", "finalize_architecture">>,
     <<"Finalize_Architecture", "finalize_architecture">>,
     <<"All Constraints Are Locked", "all constraints are locked">>,
     <<"I will now generate the architecture", "i will now generate the architecture">>,
     <<"Understood.", "understood.">>,
     <<"Which database do you prefer?", "which database do you prefer?">>,
     <<"Let me ask.", "let me ask.">>,
     <<"Decision Required:", "decision required:">>,
     <<"Which database?", "which database?">>,
     <<"Option A:", "option a:">>,
     <<"Option B:", "option b:">>,
     <<"Postgres", "postgres">>,
     <<"SQLite", "sqlite">>,
     <<"Relational and robust.", "relational and robust.">>,
     <<"Zero setup.", "zero setup.">>,
     <<"U+1F3AF", "U+1F3AF">>,
     <<"I choose: ", "i choose: ">>}

\* the letters str.lower() changes among the characters used
UpperCase == <<"A", "B", "C", "D", "E", "F", "G", "H", "I", "J", "K", "L", "M", "N", "O", "P", "Q", "R",
      "S", "T", "U", "V", "W", "X", "Y", "Z">>

LowerCase == <<"a", "b", "c", "d", "e", "f", "g", "h", "i", "j", "k", "l", "m", "n", "o", "p", "q", "r",
      "s", "t", "u", "v", "w", "x", "y", "z">>

\* str.lower() as it would be if it changed nothing
LowerPieceAsIs(piece) == piece

\* str.lower() on one character, or on a piece that is kept whole
LowerPiece(piece) ==
    IF \E k \in 1..Len(UpperCase) : UpperCase[k] = piece
    THEN LowerCase[CHOOSE k \in 1..Len(UpperCase) : UpperCase[k] = piece]
    ELSE IF \E e \in LowerTable : e[1] = piece
    THEN (CHOOSE e \in LowerTable : e[1] = piece)[2]
    ELSE piece

\* str.upper() on one character
UpperPiece(piece) ==
    IF \E k \in 1..Len(LowerCase) : LowerCase[k] = piece
    THEN UpperCase[CHOOSE k \in 1..Len(LowerCase) : LowerCase[k] = piece]
    ELSE piece

\* the characters of the trigger phrases (lines 76-81)
TriggerLetters ==
    <<
      <<"f", "i", "n", "a", "l", "i", "z", "e", "_", "a", "r", "c", "h", "i", "t", "e", "c",
        "t", "u", "r", "e">>,
      <<"a", "l", "l", " ", "c", "o", "n", "s", "t", "r", "a", "i", "n", "t", "s", " ", "a",
        "r", "e", " ", "l", "o", "c", "k", "e", "d">>,
      <<"g", "e", "n", "e", "r", "a", "t", "e", " ", "t", "h", "e", " ", "a", "r", "c", "h",
        "i", "t", "e", "c", "t", "u", "r", "e", " ", "d", "i", "a", "g", "r", "a", "m", "s">>,
      <<"I", " ", "w", "i", "l", "l", " ", "n", "o", "w", " ", "g", "e", "n", "e", "r", "a",
        "t", "e", " ", "t", "h", "e", " ", "a", "r", "c", "h", "i", "t", "e", "c", "t", "u",
        "r", "e">>
    >>

\* a phrase in a mix of letter case
CaseMix(letters, mix) ==
    [i \in 1..Len(letters) |->
        CASE mix = "as_is" -> letters[i]
          [] mix = "lower" -> LowerPiece(letters[i])
          [] mix = "upper" -> UpperPiece(letters[i])
          [] mix = "odd_upper" -> IF i % 2 = 1 THEN UpperPiece(letters[i])
                                  ELSE LowerPiece(letters[i])
          [] OTHER -> IF i = 1 \/ letters[i - 1] \in {" ", "_"} THEN UpperPiece(letters[i])
                      ELSE LowerPiece(letters[i])]

\* the characters of a piece that holds a trigger phrase; any other piece is
\* kept whole
Letters(piece) ==
    CASE piece = "finalize_architecture" -> TriggerLetters[1]
      [] piece = "FINALIZE_ARCHITECTURE" -> CaseMix(TriggerLetters[1], "upper")
      [] piece = "Finalize_Architecture" -> CaseMix(TriggerLetters[1], "title")
      [] piece = "all constraints are locked" -> TriggerLetters[2]
      [] piece = "All Constraints Are Locked" -> CaseMix(TriggerLetters[2], "title")
      [] piece = "generate the architecture diagrams" -> TriggerLetters[3]
      [] piece = "I will now generate the architecture" -> TriggerLetters[4]
      [] OTHER -> <<piece>>

RECURSIVE Flat(_)
Flat(text) == IF text = <<>> THEN <<>> ELSE Letters(Head(text)) \o Flat(Tail(text))

Lower(text) == [i \in 1..Len(text) |-> LowerPiece(text[i])]

\* t in s, for texts
Contains(s, t) ==
    \E k \in 0..(Len(s) - Len(t)) : \A i \in 1..Len(t) : s[k + i] = t[i]

\* lines 76-81
triggers ==
    << <<"finalize_architecture">>,
       <<"all constraints are locked">>,
       <<"generate the architecture diagrams">>,
       <<"I will now generate the architecture">> >>

\* lines 74-83: any(t.lower() in content.lower() for t in triggers)
detectFinalize(content) ==
    LET lowerContent == Lower(Flat(content))
    IN \E j \in 1..Len(triggers) : Contains(lowerContent, Lower(Flat(triggers[j])))

Lit(v) == [k |-> "lit", v |-> v]
Spaces == [k |-> "spaces", v |-> ""]
Group == [k |-> "group", v |-> ""]
BlankOrEnd == [k |-> "blank_or_end", v |-> ""]

\* lines 37-45: the regular expression, element by element: a literal, \s*
\* (greedy), (.+?) (lazy, DOTALL), (?:\n\n|\Z)
DECISION_PATTERN ==
    << Lit("###"), Spaces, Lit("U+1F3AF"), Spaces, Lit("Decision Required:"), Spaces, Lit("\n"),
       Lit("**"), Group, Lit("**"), Spaces, Lit("\n"), Lit("\n"),
       Lit("**"), Lit("Option A:"), Spaces, Group, Lit("**"), Spaces, Lit("\n"),
       Group, Lit("\n"), Lit("\n"),
       Lit("**"), Lit("Option B:"), Spaces, Group, Lit("**"), Spaces, Lit("\n"),
       Group, BlankOrEnd >>

NoMatch == [ok |-> FALSE, end |-> 0, groups |-> <<>>]

RECURSIVE SpaceRun(_, _)
SpaceRun(text, pos) ==
    IF pos <= Len(text) /\ IsSpace(text[pos]) THEN 1 + SpaceRun(text, pos + 1) ELSE 0

\* the backtracking match of DECISION_PATTERN[i..] at text[pos..]: the first
\* success in the order the regex engine tries (greedy longest first, lazy
\* shortest first)
RECURSIVE MatchFrom(_, _, _), TryGreedy(_, _, _, _), TryLazy(_, _, _, _)
MatchFrom(text, i, pos) ==
    IF i > Len(DECISION_PATTERN) THEN [ok |-> TRUE, end |-> pos, groups |-> <<>>]
    ELSE LET e == DECISION_PATTERN[i] IN
         CASE e.k = "lit" ->
                IF pos <= Len(text) /\ text[pos] = e.v
                THEN MatchFrom(text, i + 1, pos + 1) ELSE NoMatch
           [] e.k = "spaces" -> TryGreedy(text, i, pos, SpaceRun(text, pos))
           [] e.k = "group" -> TryLazy(text, i, pos, 1)
           [] e.k = "blank_or_end" ->
                IF pos + 1 <= Len(text) /\ text[pos] = "\n" /\ text[pos + 1] = "\n"
                THEN MatchFrom(text, i + 1, pos + 2)
                ELSE IF pos = Len(text) + 1 THEN MatchFrom(text, i + 1, pos) ELSE NoMatch

TryGreedy(text, i, pos, n) ==
    LET r == MatchFrom(text, i + 1, pos + n)
    IN IF r.ok THEN r ELSE IF n = 0 THEN NoMatch ELSE TryGreedy(text, i, pos, n - 1)

TryLazy(text, i, pos, n) ==
    IF pos + n - 1 > Len(text) THEN NoMatch
    ELSE LET r == MatchFrom(text, i + 1, pos + n)
         IN IF r.ok
            THEN [ok |-> TRUE, end |-> r.end,
                  groups |-> <<SubSeq(text, pos, pos + n - 1)>> \o r.groups]
            ELSE TryLazy(text, i, pos, n + 1)

\* DECISION_PATTERN.finditer(content): leftmost matches, one after the other
RECURSIVE FindIter(_, _)
FindIter(text, start) ==
    IF start > Len(text) THEN <<>>
    ELSE LET r == MatchFrom(text, 1, start)
         IN IF r.ok THEN <<r.groups>> \o FindIter(text, r.end)
            ELSE FindIter(text, start + 1)

\* str.strip()
RECURSIVE Strip(_)
Strip(text) ==
    IF text = <<>> THEN <<>>
    ELSE IF IsSpace(Head(text)) THEN Strip(Tail(text))
    ELSE IF IsSpace(text[Len(text)]) THEN Strip(SubSeq(text, 1, Len(text) - 1))
    ELSE text

\* lines 48-71; the j-th decision takes the uuid uuidBase + j
parseDecisionCards(content, uuidBase) ==
    LET found == FindIter(content, 1)
    IN [j \in 1..Len(found) |->
          [id |-> uuidBase + j,
           question |-> Strip(found[j][1]),
           options |-> << [label |-> Strip(found[j][2]), value |-> "option_a",
                           description |-> Strip(found[j][3])],
                          [label |-> Strip(found[j][4]), value |-> "option_b",
                           description |-> Strip(found[j][5])] >>]]

\* what the assistant's text is made of: paragraphs separated by a blank line.
\* A card is a decision block's question, labels and descriptions.
Card(question, labelA, descriptionA, labelB, descriptionB) ==
    [question |-> question, labelA |-> labelA, descriptionA |-> descriptionA,
     labelB |-> labelB, descriptionB |-> descriptionB]

NoCard == Card("", "", "", "", "")

Cards ==
    {Card("Which database?", "Postgres", "Relational and robust.", "SQLite", "Zero setup."),
     Card("Which database?", "SQLite", "Zero setup.", "Postgres", "Relational and robust.")}

\* the optional white space of the pattern, present or not
Gap(loose) == IF loose THEN <<" ">> ELSE <<>>

\* a heading and a bold question
HeadingText(c, loose) ==
    <<"###">> \o Gap(loose) \o <<"U+1F3AF">> \o Gap(loose) \o <<"Decision Required:", "\n",
      "**", c.question, "**">>

\* a heading, a bold question and two bold-labelled options, each with a description
BlockText(c, loose) ==
    HeadingText(c, loose) \o <<"\n", "\n",
      "**", "Option A:">> \o Gap(loose) \o <<c.labelA, "**", "\n", c.descriptionA, "\n", "\n",
      "**", "Option B:">> \o Gap(loose) \o <<c.labelB, "**", "\n", c.descriptionB>>

Paragraphs ==
    {[kind |-> "prose", card |-> NoCard, text |-> t] :
        t \in {<<"Let me ask.">>, <<"Understood.", " ", "FINALIZE_ARCHITECTURE">>}}
    \cup {[kind |-> "heading", card |-> c, text |-> HeadingText(c, TRUE)] : c \in Cards}
    \cup {[kind |-> "block", card |-> c, text |-> BlockText(c, loose)] :
            c \in Cards, loose \in BOOLEAN}

RECURSIVE TextOf(_)
TextOf(paragraphs) ==
    IF paragraphs = <<>> THEN <<>>
    ELSE IF Len(paragraphs) = 1 THEN paragraphs[1].text
    ELSE paragraphs[1].text \o <<"\n", "\n">> \o TextOf(Tail(paragraphs))

ExtractorIdle == extractor = [paragraphs |-> <<>>, calls |-> <<>>]

\* ------------------------------------------------------------------ chatCompletion

\* str(e) of what the provider's client raises: the status error of a rate
\* limit, of a server error, of a request that is too long, and a timeout
RateLimited == <<"Error code: ", "4", "2", "9", " - ", "Rate limit reached">>

ServerError == <<"Error code: ", "5", "0", "0", " - ", "Internal server error">>

TooLong ==
    <<"Error code: ", "4", "0", "0", " - ", "maximum context length is ", "4", "0", "9", "6",
      " tokens, requested ", "4", "2", "9", "3">>

TimedOut == <<"Request timed out.">>

ProviderFailures == {RateLimited, ServerError, TooLong, TimedOut}

\* settings.siliconflow_backoff_base and _max (core/config.py, lines 44-45) as
\* the environment may set them, in seconds
BackoffBases == {1, 2}

BackoffMaxs == {3, 60}

Min(a, b) == IF a < b THEN a ELSE b

\* no call made: pc is "idle" | "calling" | "sleeping" | "returned" | "raised";
\* failures are the errors the provider raised, delays the sleeps made
RouterIdle ==
    router = [pc |-> "idle", retries |-> 0, base |-> 0, max |-> 0, attempt |-> 0,
              backoff |-> 0, failures |-> <<>>, delays |-> <<>>, error |-> <<>>]

\* line 110: "429" in errStr and attempt < retries - 1
ShouldRetry(errStr, attempt, retries) ==
    Contains(errStr, <<"4", "2", "9">>) /\ attempt < retries - 1

\* lines 64-77: the call starts, backoff = settings.siliconflow_backoff_base, and
\* the first attempt is made
ChatCompletion ==
    /\ router.pc = "idle"
    /\ \E retries \in 1..MaxRetries, base \in BackoffBases, max \in BackoffMaxs :
        router' = [router EXCEPT !.pc = "calling", !.retries = retries, !.base = base,
                                 !.max = max, !.backoff = base]
    /\ UNCHANGED <<sandboxVars, activeConnections, managerVars, turnVars, historyVars,
                   extractorVars>>

\* lines 78-106: the provider answers and the content is returned
ProviderAnswers ==
    /\ router.pc = "calling"
    /\ router' = [router EXCEPT !.pc = "returned"]
    /\ UNCHANGED <<sandboxVars, activeConnections, managerVars, turnVars, historyVars,
                   extractorVars>>

\* lines 108-119: the provider's client raises; the call goes to sleep or raises
ProviderRaises ==
    /\ router.pc = "calling"
    /\ \E e \in ProviderFailures :
        router' = IF ShouldRetry(e, router.attempt, router.retries)
                  THEN [router EXCEPT !.pc = "sleeping", !.failures = Append(@, e)]
                  ELSE [router EXCEPT !.pc = "raised", !.failures = Append(@, e),
                                      !.error = e]
    /\ UNCHANGED <<sandboxVars, activeConnections, managerVars, turnVars, historyVars,
                   extractorVars>>

\* lines 115-116 and 77: the sleep is over, the backoff doubled up to the
\* maximum, and the next attempt is made
BackoffSlept ==
    /\ router.pc = "sleeping"
    /\ router' = [router EXCEPT !.pc = "calling",
                                 !.delays = Append(@, router.backoff),
                                 !.backoff = Min(router.backoff * 2, router.max),
                                 !.attempt = @ + 1]
    /\ UNCHANGED <<sandboxVars, activeConnections, managerVars, turnVars, historyVars,
                   extractorVars>>

RouterNext == ChatCompletion \/ ProviderAnswers \/ ProviderRaises \/ BackoffSlept

\* a caller applies parseDecisionCards to the text (lines 48-71): each decision
\* takes a new uuid4
CallParseDecisionCards ==
    /\ extractor.paragraphs # <<>>
    /\ Len(extractor.calls) < MaxExtractorCalls
    /\ LET result == parseDecisionCards(TextOf(extractor.paragraphs), lastUuid)
       IN /\ extractor' = [extractor EXCEPT !.calls =
                               Append(@, [fn |-> "parseDecisionCards", decisions |-> result,
                                          finalize |-> FALSE])]
          /\ lastUuid' = lastUuid + Len(result)
    /\ UNCHANGED <<dbConversations, dbMessages, fkEnforced, txn, now, turn, turns, endpoint>>
    /\ UNCHANGED <<sandboxVars, activeConnections, managerVars, historyVars, routerVars>>

\* a caller applies detectFinalize to the text (lines 74-83)
CallDetectFinalize ==
    /\ extractor.paragraphs # <<>>
    /\ Len(extractor.calls) < MaxExtractorCalls
    /\ extractor' = [extractor EXCEPT !.calls =
                        Append(@, [fn |-> "detectFinalize", decisions |-> <<>>,
                                   finalize |-> detectFinalize(TextOf(extractor.paragraphs))])]
    /\ UNCHANGED <<sandboxVars, activeConnections, managerVars, turnVars, historyVars,
                   routerVars>>

\* texts for detectFinalize: a trigger phrase in some mix of letter case, or a
\* trigger phrase with one character left out or replaced, between other words
Without(letters, k) == SubSeq(letters, 1, k - 1) \o SubSeq(letters, k + 1, Len(letters))

Leads == {<<>>, <<"Understood.", " ">>}

Trails == {<<>>, <<".", " ", "Let me ask.">>}

Mixes == {"as_is", "lower", "upper", "odd_upper", "title"}

FinalizeParagraphs ==
    {[kind |-> "trigger", card |-> NoCard,
      text |-> lead \o CaseMix(TriggerLetters[j], mix) \o trail] :
        j \in 1..Len(TriggerLetters), mix \in Mixes, lead \in Leads, trail \in Trails}
    \cup {[kind |-> "other", card |-> NoCard,
           text |-> lead \o CaseMix(Without(TriggerLetters[j], k), mix) \o trail] :
        j \in 1..Len(TriggerLetters), k \in {1, 9, 21}, mix \in {"lower", "upper"},
        lead \in Leads, trail \in Trails}
    \cup {[kind |-> "other", card |-> NoCard,
           text |-> [CaseMix(TriggerLetters[j], mix) EXCEPT ![9] = "-"]] :
        j \in 1..Len(TriggerLetters), mix \in Mixes}
    \cup {[kind |-> "other", card |-> NoCard, text |-> lead \o trail] :
        lead \in Leads, trail \in Trails}

ExtractorNext == CallParseDecisionCards \/ CallDetectFinalize

\* ------------------------------------------------------------------ messages and history

Clients == {"k1", "k2"}

\* the content of llm/prompts/cofounder_system.txt
COFOUNDER_SYSTEM_PROMPT == <<"cofounder_system.txt">>

NoMetadata == [kind |-> "none"]

Message(id, conversationId, role, content, metadata, createdAt) ==
    [id |-> id, conversationId |-> conversationId, role |-> role, content |-> content,
     metadata |-> metadata, createdAt |-> createdAt]

SetOf(seq) == {seq[i] : i \in 1..Len(seq)}

\* ORDER BY createdAt over a set of rows: every order with createdAt ascending;
\* rows with the same createdAt come in whatever order the database picks
RECURSIVE OrderBy(_)
OrderBy(S) ==
    IF S = {} THEN {<<>>}
    ELSE LET first == {x \in S : \A y \in S : x.createdAt <= y.createdAt}
         IN UNION {{<<x>> \o r : r \in OrderBy(S \ {x})} : x \in first}

\* lines 104-109 as they would be without the mapping of hidden to user
RECURSIVE FormatRowsDropsHidden(_)
FormatRowsDropsHidden(rs) ==
    IF rs = <<>> THEN <<>>
    ELSE (IF Head(rs).role \in {"user", "assistant", "system"}
          THEN <<[role |-> Head(rs).role, content |-> Head(rs).content]>> ELSE <<>>)
         \o FormatRowsDropsHidden(Tail(rs))

\* lines 104-109: hidden is sent as user; user, assistant and system are kept
RECURSIVE FormatRows(_)
FormatRows(rs) ==
    IF rs = <<>> THEN <<>>
    ELSE LET msg == Head(rs)
             role == IF msg.role = "hidden" THEN "user" ELSE msg.role
         IN (IF role \in {"user", "assistant", "system"}
             THEN <<[role |-> role, content |-> msg.content]>> ELSE <<>>)
            \o FormatRows(Tail(rs))

\* lines 103-111, applied to the rows the query of lines 96-101 returned
buildMessageHistory(rs) ==
    <<[role |-> "system", content |-> COFOUNDER_SYSTEM_PROMPT]>> \o FormatRows(rs)

\* ------------------------------------------------------------------ the history builder alone

NoTranscript == [status |-> 0, conversationId |-> 0, messages |-> <<>>]

HistoryIdle == stored = <<>> /\ rows = <<>> /\ builtHistory = <<>> /\ transcript = NoTranscript

StoredRoles == {"user", "assistant", "system", "hidden", "tool"}

StoredTexts == <<"first", "second", "third", "fourth", "fifth">>

\* a message is stored for conversation 1 or 2; the clock may not have moved
\* since the previous insert
StoreMessage ==
    /\ Len(stored) < MaxStored
    /\ builtHistory = <<>>
    /\ \E role \in StoredRoles, c \in {1, 2}, dt \in {0, 1} :
        LET last == IF stored = <<>> THEN 1 ELSE stored[Len(stored)].createdAt
            id == Len(stored) + 1
        IN stored' = Append(stored,
                Message(id, c, role, <<StoredTexts[id]>>, NoMetadata, last + dt))
    /\ UNCHANGED <<rows, builtHistory, transcript>>
    /\ UNCHANGED <<sandboxVars, activeConnections, managerVars, turnVars, extractorVars, routerVars>>

\* lines 96-111 for conversation 1
BuildStoredHistory ==
    /\ builtHistory = <<>>
    /\ \E r \in OrderBy({m \in SetOf(stored) : m.conversationId = 1}) :
        /\ rows' = r
        /\ builtHistory' = buildMessageHistory(r)
    /\ UNCHANGED <<stored, transcript>>
    /\ UNCHANGED <<sandboxVars, activeConnections, managerVars, turnVars, extractorVars, routerVars>>

HistoryNext == StoreMessage \/ BuildStoredHistory

\* ------------------------------------------------------------------ the per-turn algorithm

UserTexts == {<<"build a todo app">>}

R_plain == <<"Which database do you prefer?">>

R_final == <<"Understood.", " ", "FINALIZE_ARCHITECTURE">>

R_card ==
    <<"Let me ask.", "\n", "\n",
      "###", " ", "U+1F3AF", " ", "Decision Required:", "\n",
      "**", "Which database?", "**", "\n", "\n",
      "**", "Option A:", " ", "Postgres", "**", "\n",
      "Relational and robust.", "\n", "\n",
      "**", "Option B:", " ", "SQLite", "**", "\n",
      "Zero setup.">>

\* what the cofounder model may answer
Replies == {R_plain, R_final, R_card}

\* the selected_value a client may send
SelectedValues == {"option_a", "something else"}

\* line 225: .limit(5)
RecentLimit == 5

IdleTurn ==
    [pc |-> "idle", op |-> "none", conversationId |-> 0, convLoaded |-> FALSE,
     newConversation |-> FALSE, userContent |-> <<>>, history |-> <<>>,
     assistantContent |-> <<>>, decisions |-> <<>>, shouldFinalize |-> FALSE,
     pending |-> <<>>, pendingPhase |-> "none", emitted |-> <<>>, turnStart |-> 0,
     recentMessages |-> <<>>, decisionId |-> 0, selectedValue |-> "",
     selectedLabel |-> <<>>, error |-> ""]

\* main.py lines 96-98: the loop is waiting in receive_text; frame and reply are
\* the last frame it handled without a turn and what it sent in answer
OpenEndpoint == [state |-> "receiving", count |-> 0, frame |-> "none", reply |-> <<>>]

\* nothing written and not committed on the shared connection
EmptyTxn == [messages |-> <<>>, conversations |-> {}]

\* core/database.py lines 20-25: with SQLite the pool is a StaticPool, one
\* connection that every session uses; with PostgreSQL (lines 26-30) each session
\* has a connection of its own
SharedConnection == ~fkEnforced

TurnIdle ==
    /\ dbConversations = <<>>
    /\ dbMessages = <<>>
    /\ fkEnforced = FALSE
    /\ txn = EmptyTxn
    /\ now = 1
    /\ lastUuid = 0
    /\ turn = [p \in Clients |-> IdleTurn]
    /\ turns = 0
    /\ endpoint = [p \in Clients |-> OpenEndpoint]

PhaseChange(from, to) == [type |-> "phase_change", from_phase |-> from, to_phase |-> to]

NewConversationEvent(id) ==
    [type |-> "phase_change", from_phase |-> "init", to_phase |-> "negotiation",
     conversation_id |-> id]

ChatMessage(content, decisions) ==
    [type |-> "chat_message", role |-> "assistant", content |-> content,
     metadata |-> IF decisions # <<>> THEN [kind |-> "decisions", decisions |-> decisions]
                  ELSE NoMetadata]

DecisionRequired(d) == [type |-> "decision_required", decision |-> d]

ErrorEvent(e) == [type |-> "error", message |-> <<"Internal error: ", e>>]

\* the rows a session sees for a conversation: the committed ones and its own
\* flushed ones
Uncommitted(p) == IF SharedConnection THEN txn.messages ELSE turn[p].pending

Visible(p, cid) ==
    {m \in SetOf(dbMessages) \cup SetOf(Uncommitted(p)) :
        m.conversationId = cid /\ m.createdAt > 0}

\* session.get: the session's own new object, or a row the connection sees
ConversationVisible(p, cid) ==
    \/ cid \in DOMAIN dbConversations
    \/ turn[p].newConversation /\ turn[p].conversationId = cid
    \/ cid \in txn.conversations

\* an INSERT by flush: on the shared connection the row joins its transaction
Inserted(row) ==
    IF SharedConnection THEN [txn EXCEPT !.messages = Append(@, row)] ELSE txn

\* a rollback: on the shared connection it undoes what every session has
\* written and not committed
RolledBack == IF SharedConnection THEN EmptyTxn ELSE txn

\* an INSERT into messages passes the foreign key check
ForeignKeyOk(p, cid) == ~fkEnforced \/ ConversationVisible(p, cid)

\* the session is closed without a commit (core/database.py, getSession): what
\* it holds is rolled back; the websocket endpoint reports the error (main.py,
\* lines 153-159)
Failed(p, e) ==
    /\ txn' = RolledBack
    /\ turn' = [turn EXCEPT ![p] =
            [@ EXCEPT !.pc = "failed", !.pending = <<>>, !.pendingPhase = "none",
                      !.newConversation = FALSE, !.error = e,
                      !.emitted = IF turn[p].op = "user_message"
                                  THEN Append(@, ErrorEvent(e)) ELSE @]]
    /\ IF turn[p].op = "user_message" THEN SendEvent(p) ELSE UNCHANGED activeConnections

CanStart(p) ==
    /\ endpoint[p].state = "receiving"
    /\ turn[p].pc \in {"idle", "returned", "failed"}
    /\ turns < MaxTurns
    /\ Registered(p)

\* main.py lines 113-153: a user_message arrives; the conversation named is
\* loaded, or a new one is added, flushed and announced
WsUserMessage(p) ==
    /\ LoopFree
    /\ CanStart(p)
    /\ \E content \in UserTexts, cid \in DOMAIN dbConversations \cup {0} :
        LET exists == cid \in DOMAIN dbConversations
            newId == lastUuid + 1
        IN /\ turn' = [turn EXCEPT ![p] =
                  [IdleTurn EXCEPT !.pc = "saveUser", !.op = "user_message",
                       !.conversationId = IF exists THEN cid ELSE newId,
                       !.convLoaded = TRUE,
                       !.newConversation = ~exists,
                       !.userContent = content,
                       !.emitted = IF exists THEN <<>> ELSE <<NewConversationEvent(newId)>>,
                       !.turnStart = IF exists THEN 0 ELSE 1]]
           /\ lastUuid' = IF exists THEN lastUuid ELSE newId
           /\ txn' = IF ~exists /\ SharedConnection
                      THEN [txn EXCEPT !.conversations = @ \cup {newId}] ELSE txn
           /\ IF exists THEN UNCHANGED activeConnections ELSE SendEvent(p)
    /\ turns' = turns + 1
    /\ UNCHANGED <<dbConversations, dbMessages, fkEnforced, now>>
    /\ UNCHANGED <<sandboxVars, managerVars, historyVars, extractorVars, routerVars, endpoint>>

\* lines 235-237
RECURSIVE ScanOptions(_, _, _)
ScanOptions(options, selectedValue, label) ==
    IF options = <<>> THEN label
    ELSE ScanOptions(Tail(options), selectedValue,
            IF Head(options).value = selectedValue THEN Head(options).label ELSE label)

\* lines 233-238: the first decision with the id decides, then break
RECURSIVE ScanDecisions(_, _, _, _)
ScanDecisions(ds, decisionId, selectedValue, label) ==
    IF ds = <<>> THEN label
    ELSE IF Head(ds).id = decisionId
         THEN ScanOptions(Head(ds).options, selectedValue, label)
         ELSE ScanDecisions(Tail(ds), decisionId, selectedValue, label)

\* lines 231-238
RECURSIVE ScanMessages(_, _, _, _)
ScanMessages(msgs, decisionId, selectedValue, label) ==
    IF msgs = <<>> THEN label
    ELSE ScanMessages(Tail(msgs), decisionId, selectedValue,
            IF Head(msgs).metadata.kind = "decisions"
            THEN ScanDecisions(Head(msgs).metadata.decisions, decisionId, selectedValue, label)
            ELSE label)

\* lines 230-238: selectedLabel = selectedValue, then the search
ResolveLabel(recentMessages, decisionId, selectedValue) ==
    ScanMessages(recentMessages, decisionId, selectedValue, <<selectedValue>>)

Reverse(seq) == [i \in 1..Len(seq) |-> seq[Len(seq) + 1 - i]]

\* the query as it would be without its limit
FirstNUnlimited(seq, n) == seq

FirstN(seq, n) == IF Len(seq) > n THEN SubSeq(seq, 1, n) ELSE seq

\* lines 220-227: the assistant rows, ORDER BY createdAt DESC LIMIT 5
RecentAssistant(p, cid) ==
    {FirstN(Reverse(r), RecentLimit) :
        r \in OrderBy({m \in Visible(p, cid) : m.role = "assistant"})}

DecisionIds == {d.id : d \in UNION {SetOf(m.metadata.decisions) :
                    m \in {x \in SetOf(dbMessages) : x.metadata.kind = "decisions"}}}

\* lines 208-249: handleDecisionResponse up to the call of handleUserMessage
DecisionResponse(p) ==
    /\ LoopFree
    /\ CanStart(p)
    /\ turns' = turns + 1
    /\ \E cid \in DOMAIN dbConversations \cup {0}, did \in DecisionIds \cup {0},
          sel \in SelectedValues, dt \in {1} :
        \E recent \in RecentAssistant(p, cid) :
          LET label == ResolveLabel(recent, did, sel)
              hiddenContent == <<"I choose: ">> \o label
              hiddenMsg == Message(lastUuid + 1, cid, "hidden", hiddenContent,
                              [kind |-> "choice", decision_id |-> did, selected_value |-> sel],
                              now + dt)
              t == [IdleTurn EXCEPT !.pc = "saveUser", !.op = "decision_response",
                        !.conversationId = cid, !.recentMessages = recent,
                        !.decisionId = did, !.selectedValue = sel,
                        !.selectedLabel = label, !.userContent = hiddenContent]
          IN IF ForeignKeyOk(p, cid)
             THEN /\ turn' = [turn EXCEPT ![p] = [t EXCEPT !.pending = <<hiddenMsg>>]]
                  /\ txn' = Inserted(hiddenMsg)
                  /\ lastUuid' = lastUuid + 1
                  /\ now' = now + dt
                  /\ UNCHANGED activeConnections
             ELSE /\ turn' = [turn EXCEPT ![p] =
                                [t EXCEPT !.pc = "failed", !.error = "IntegrityError"]]
                  /\ txn' = RolledBack
                  /\ UNCHANGED <<lastUuid, now, activeConnections>>
    /\ UNCHANGED <<dbConversations, dbMessages, fkEnforced>>
    /\ UNCHANGED <<sandboxVars, managerVars, historyVars, extractorVars, routerVars, endpoint>>

\* lines 132-139: the user message is added and flushed
SaveUserMessage(p) ==
    /\ LoopFree
    /\ turn[p].pc = "saveUser"
    /\ IF ForeignKeyOk(p, turn[p].conversationId)
       THEN \E dt \in {0, 1} :
            LET userMsg == Message(lastUuid + 1, turn[p].conversationId, "user",
                              turn[p].userContent, NoMetadata, now + dt)
            IN /\ turn' = [turn EXCEPT ![p] =
                      [@ EXCEPT !.pc = "history", !.pending = Append(@, userMsg)]]
               /\ txn' = Inserted(userMsg)
               /\ lastUuid' = lastUuid + 1
               /\ now' = now + dt
               /\ UNCHANGED activeConnections
       ELSE /\ Failed(p, "IntegrityError")
            /\ UNCHANGED <<lastUuid, now>>
    /\ UNCHANGED <<dbConversations, dbMessages, fkEnforced, turns>>
    /\ UNCHANGED <<sandboxVars, managerVars, historyVars, extractorVars, routerVars, endpoint>>

\* lines 141-142 and 88-111
BuildHistory(p) ==
    /\ LoopFree
    /\ turn[p].pc = "history"
    /\ \E r \in OrderBy(Visible(p, turn[p].conversationId)) :
        turn' = [turn EXCEPT ![p] =
            [@ EXCEPT !.pc = "llm", !.history = buildMessageHistory(r)]]
    /\ UNCHANGED <<dbVars, turns, activeConnections>>
    /\ UNCHANGED <<sandboxVars, managerVars, historyVars, extractorVars, routerVars, endpoint>>

\* line 153 for each reply, before the uuids are drawn
ParsedReplies == [r \in Replies |-> parseDecisionCards(r, 0)]

\* lines 145-165: the reply is parsed and the assistant message added (it is
\* flushed later: createdAt 0 stands for not yet inserted)
LlmReturns(p) ==
    /\ LoopFree
    /\ turn[p].pc = "llm"
    /\ \E reply \in Replies :
        LET parsed == ParsedReplies[reply]
            decisions == [j \in 1..Len(parsed) |-> [parsed[j] EXCEPT !.id = lastUuid + j]]
            assistantMsg == Message(0, turn[p].conversationId, "assistant", reply,
                                IF decisions # <<>>
                                THEN [kind |-> "decisions", decisions |-> decisions]
                                ELSE NoMetadata, 0)
        IN /\ turn' = [turn EXCEPT ![p] =
                  [@ EXCEPT !.pc = "emit", !.assistantContent = reply,
                            !.decisions = decisions,
                            !.shouldFinalize = detectFinalize(reply),
                            !.pending = Append(@, assistantMsg)]]
           /\ lastUuid' = lastUuid + Len(decisions)
    /\ UNCHANGED <<dbConversations, dbMessages, fkEnforced, txn, now, turns, activeConnections>>
    /\ UNCHANGED <<sandboxVars, managerVars, historyVars, extractorVars, routerVars, endpoint>>

\* services/llm/router.py lines 107-118: chatCompletion raises
\* str(e) of the exceptions the provider's client raises, which chatCompletion
\* raises again after its retries (router.py, lines 107-118)
ProviderErrors == {"provider error", "Incorrect API key provided: sk-live"}

LlmFails(p) ==
    /\ LoopFree
    /\ turn[p].pc = "llm"
    /\ \E e \in ProviderErrors : Failed(p, e)
    /\ UNCHANGED <<dbConversations, dbMessages, fkEnforced, now, lastUuid, turns>>
    /\ UNCHANGED <<sandboxVars, managerVars, historyVars, extractorVars, routerVars, endpoint>>

\* lines 167-185: chat_message, then one decision_required for each decision
EmitChat(p) ==
    /\ LoopFree
    /\ turn[p].pc = "emit"
    /\ turn' = [turn EXCEPT ![p] =
          [@ EXCEPT !.pc = "finalize",
                    !.emitted = @ \o <<ChatMessage(turn[p].assistantContent, turn[p].decisions)>>
                                  \o [j \in 1..Len(turn[p].decisions) |->
                                         DecisionRequired(turn[p].decisions[j])]]]
    /\ SendEvent(p)
    /\ UNCHANGED <<dbVars, turns>>
    /\ UNCHANGED <<sandboxVars, managerVars, historyVars, extractorVars, routerVars, endpoint>>

\* line 191
FinalizePhase == "architecture"

\* the default as it would be were conversations created in a later phase
DefaultPhaseLater == "execution"

\* core/models.py, lines 38-40
DefaultPhase == "negotiation"

\* session.flush(): the rows not yet inserted get their id and createdAt
Flush(pending, t, id) ==
    [i \in 1..Len(pending) |->
        IF pending[i].createdAt = 0
        THEN [pending[i] EXCEPT !.createdAt = t, !.id = id] ELSE pending[i]]

\* lines 187-200
Finalize(p) ==
    /\ LoopFree
    /\ turn[p].pc = "finalize"
    /\ IF turn[p].shouldFinalize
       THEN /\ turn' = [turn EXCEPT ![p] =
                  [@ EXCEPT !.pc = "commit",
                      !.pendingPhase = IF ConversationVisible(p, turn[p].conversationId)
                                       THEN FinalizePhase ELSE @,
                      !.emitted = Append(@, PhaseChange("negotiation", "architecture"))]]
            /\ SendEvent(p)
       ELSE /\ turn' = [turn EXCEPT ![p] = [@ EXCEPT !.pc = "commit"]]
            /\ UNCHANGED activeConnections
    /\ UNCHANGED <<dbVars, turns>>
    /\ UNCHANGED <<sandboxVars, managerVars, historyVars, extractorVars, routerVars, endpoint>>

\* the rows session.commit() writes: all the session holds
CommitRows(p, flushed) == flushed

\* what the COMMIT makes durable: the session's rows, or with the shared
\* connection all that is in its transaction and the rows this commit flushes
Written(p, flushed) ==
    IF SharedConnection
    THEN txn.messages \o
         SelectSeq(flushed, LAMBDA m : \E i \in 1..Len(flushed) :
                                          flushed[i] = m /\ turn[p].pending[i].createdAt = 0)
    ELSE flushed

\* the conversations there are once the transaction is committed
Created(p) ==
    IF SharedConnection
    THEN dbConversations @@ [c \in txn.conversations |-> DefaultPhase]
    ELSE IF turn[p].newConversation
    THEN dbConversations @@ (turn[p].conversationId :> DefaultPhase)
    ELSE dbConversations

\* the UPDATE of the phase finds its row; if the row is gone the flush raises
\* StaleDataError
PhaseRowOk(p) ==
    turn[p].pendingPhase = "none" \/ turn[p].conversationId \in DOMAIN Created(p)

\* line 202: session.commit() writes what the session holds, all of it; the
\* model's reply has taken time, so the clock has moved since the last insert
Commit(p) ==
    /\ LoopFree
    /\ turn[p].pc = "commit"
    /\ IF ForeignKeyOk(p, turn[p].conversationId) /\ PhaseRowOk(p)
       THEN LET cid == turn[p].conversationId
                dt == 1
                flushed == Flush(turn[p].pending, now + dt, lastUuid + 1)
                created == Created(p)
            IN /\ dbMessages' = dbMessages \o CommitRows(p, Written(p, flushed))
               /\ txn' = EmptyTxn
               /\ dbConversations' =
                    IF turn[p].pendingPhase # "none" /\ cid \in DOMAIN created
                    THEN [created EXCEPT ![cid] = turn[p].pendingPhase] ELSE created
               /\ now' = now + dt
               /\ lastUuid' = lastUuid + 1
               /\ turn' = [turn EXCEPT ![p] =
                      [@ EXCEPT !.pc = "returned", !.pending = flushed]]
               /\ UNCHANGED activeConnections
       ELSE /\ Failed(p, IF ForeignKeyOk(p, turn[p].conversationId)
                          THEN "StaleDataError" ELSE "IntegrityError")
            /\ UNCHANGED <<dbConversations, dbMessages, now, lastUuid>>
    /\ UNCHANGED <<fkEnforced, turns>>
    /\ UNCHANGED <<sandboxVars, managerVars, historyVars, extractorVars, routerVars, endpoint>>

\* line 202: session.commit() raises
CommitFails(p) ==
    /\ LoopFree
    /\ turn[p].pc = "commit"
    /\ Failed(p, "database error")
    /\ UNCHANGED <<dbConversations, dbMessages, fkEnforced, now, lastUuid, turns>>
    /\ UNCHANGED <<sandboxVars, managerVars, historyVars, extractorVars, routerVars, endpoint>>

\* text frames that are no well-formed user_message: not JSON; JSON that is not
\* an object; an object whose payload is not an object, with event_type
\* user_message or another one
Frames == {"not_json", "not_object", "payload_not_object", "payload_not_object_other"}

InvalidJson == [type |-> "error", message |-> <<"Invalid JSON">>]

\* main.py lines 100-117 for a frame: json.loads raises JSONDecodeError and the
\* error is reported; data.get or payload.get raises AttributeError, which only
\* the handler of line 165 catches; a payload that is never looked at is ignored
Dispatch(frame) ==
    IF frame = "not_json" THEN "reported"
    ELSE IF frame \in {"not_object", "payload_not_object"} THEN "AttributeError"
    ELSE "ignored"

\* main.py lines 96-119 and 163-167: a frame arrives that starts no turn
ReceiveFrame(p) ==
    /\ LoopFree
    /\ CanStart(p)
    /\ endpoint[p].count < MaxFrames
    /\ \E frame \in Frames :
        LET e == [endpoint[p] EXCEPT !.count = @ + 1, !.frame = frame]
        IN IF Dispatch(frame) = "reported"
           THEN /\ endpoint' = [endpoint EXCEPT ![p] = [e EXCEPT !.reply = <<InvalidJson>>]]
                /\ SendEvent(p)
           ELSE IF Dispatch(frame) = "AttributeError"
           THEN /\ endpoint' = [endpoint EXCEPT ![p] =
                                    [e EXCEPT !.reply = <<>>, !.state = "closed"]]
                /\ activeConnections' = Pop(activeConnections, p)
           ELSE /\ endpoint' = [endpoint EXCEPT ![p] = [e EXCEPT !.reply = <<>>]]
                /\ UNCHANGED activeConnections
    /\ UNCHANGED <<dbVars, turn, turns>>
    /\ UNCHANGED <<sandboxVars, managerVars, historyVars, extractorVars, routerVars>>

\* main.py lines 98 and 163-164: receive_text raises WebSocketDisconnect
ClientCloses(p) ==
    /\ LoopFree
    /\ CanStart(p)
    /\ endpoint' = [endpoint EXCEPT ![p].state = "closed"]
    /\ activeConnections' = Pop(activeConnections, p)
    /\ UNCHANGED <<dbVars, turn, turns>>
    /\ UNCHANGED <<sandboxVars, managerVars, historyVars, extractorVars, routerVars>>

\* the endpoint: frames of every kind on the connections
EndpointNext ==
    \E p \in Clients :
        \/ ReceiveFrame(p) \/ ClientCloses(p)
        \/ WsUserMessage(p) \/ SaveUserMessage(p)
        \/ BuildHistory(p) \/ LlmReturns(p) \/ LlmFails(p) \/ EmitChat(p)
        \/ Finalize(p) \/ Commit(p) \/ CommitFails(p)

\* chat.py lines 83-94 as they would be without the condition of line 93
TranscriptRowsAll(rs) == rs

\* chat.py lines 83-94: the messages of the conversation that are not hidden
TranscriptRows(rs) == SelectSeq(rs, LAMBDA m : m.role # "hidden")

\* chat.py lines 62-95, GET /conversations/{conversationId}: in a session of its
\* own, which sees what is committed and, on the shared connection, what is in
\* its transaction; messages by createdAt (models.py lines 49-52). The session
\* is closed at the end of the request, which rolls its connection back
GetConversation ==
    /\ LoopFree
    /\ \E cid \in DOMAIN dbConversations \cup txn.conversations \cup {0} :
        IF cid \notin DOMAIN dbConversations \cup txn.conversations
        THEN transcript' = [status |-> 404, conversationId |-> cid, messages |-> <<>>]
        ELSE \E r \in OrderBy({m \in SetOf(dbMessages) \cup SetOf(txn.messages) :
                                  m.conversationId = cid}) :
                transcript' = [status |-> 200, conversationId |-> cid,
                               messages |-> TranscriptRows(r)]
    /\ txn' = RolledBack
    /\ UNCHANGED <<dbConversations, dbMessages, fkEnforced, now, lastUuid, turn, turns, endpoint>>
    /\ UNCHANGED <<stored, rows, builtHistory>>
    /\ UNCHANGED <<sandboxVars, activeConnections, managerVars, extractorVars, routerVars>>

TurnNext ==
    \E p \in Clients :
        \/ WsUserMessage(p) \/ DecisionResponse(p) \/ SaveUserMessage(p)
        \/ BuildHistory(p) \/ LlmReturns(p) \/ LlmFails(p) \/ EmitChat(p)
        \/ Finalize(p) \/ Commit(p) \/ CommitFails(p)

\* ------------------------------------------------------------------ ConnectionManager

\* a call not made yet; of a call made: what it is (kind, clientId), where it is
\* (pc: "accepting" | "sending" | "returned" | "raised"), for broadcast the dict
\* iterator (used, pos, len) with the client in hand (cur) and the list
\* disconnected, and what it has done: the clients registered when it started
\* (atStart), those it sent to (sent) and those whose send failed (failed); ws is
\* the websocket a connect was given (each call its own) or a sendEvent got from
\* the dict
IdleOp ==
    [kind |-> "none", pc |-> "none", clientId |-> "", used |-> 0, pos |-> 0, len |-> 0,
     cur |-> "", disconnected |-> <<>>, atStart |-> {}, sent |-> <<>>, failed |-> {},
     ws |-> 0]

ManagerIdle ==
    ops = [i \in 1..MaxOps |-> IdleOp] /\ started = 0 /\ websockets = [c \in Clients |-> 0]

\* the values of the dict once the keys cids are popped
Dropped(socks, cids) == [c \in Clients |-> IF c \in cids THEN 0 ELSE socks[c]]

Keys(reg) == {reg[i] : i \in 1..Len(reg)} \ {Tombstone}

\* ma_used: the number of entries of the dict
Used(reg) == Cardinality({i \in 1..Len(reg) : reg[i] # Tombstone})

\* self._activeConnections[clientId] = websocket: a new key takes a new slot at the
\* end, a key already there keeps its slot
SetItem(reg, clientId) ==
    IF \E i \in 1..Len(reg) : reg[i] = clientId THEN reg ELSE Append(reg, clientId)

RECURSIVE PopAll(_, _)
PopAll(reg, cids) == IF cids = <<>> THEN reg ELSE PopAll(Pop(reg, Head(cids)), Tail(cids))

\* next() of the iterator of self._activeConnections.items(): RuntimeError when the
\* number of entries is not the one the iterator started with, or when an entry
\* is found after as many were yielded as there were at the start
IterNext(o, reg) ==
    IF o.used # Used(reg) THEN [outcome |-> "RuntimeError", pos |-> o.pos]
    ELSE LET rest == {i \in (o.pos + 1)..Len(reg) : reg[i] # Tombstone}
         IN IF rest = {} THEN [outcome |-> "stop", pos |-> o.pos]
            ELSE IF o.len = 0 THEN [outcome |-> "RuntimeError", pos |-> o.pos]
            ELSE [outcome |-> "item", pos |-> CHOOSE i \in rest : \A j \in rest : i <= j]

Starting(i) == i = started + 1 /\ i <= MaxOps

\* connect, lines 28-29: await websocket.accept()
ConnectCall(i) ==
    /\ Starting(i)
    /\ \E c \in Clients :
        ops' = [ops EXCEPT ![i] = [IdleOp EXCEPT !.kind = "connect", !.pc = "accepting",
                                                 !.clientId = c, !.ws = i]]
    /\ started' = i
    /\ UNCHANGED <<activeConnections, websockets>>
    /\ UNCHANGED <<sandboxVars, turnVars, historyVars, extractorVars, routerVars>>

\* connect, line 30, or accept() raised
ConnectRegister(i) ==
    /\ ops[i].kind = "connect" /\ ops[i].pc = "accepting"
    /\ \/ /\ activeConnections' = SetItem(activeConnections, ops[i].clientId)
          /\ websockets' = [websockets EXCEPT ![ops[i].clientId] = ops[i].ws]
          /\ ops' = [ops EXCEPT ![i].pc = "returned"]
       \/ /\ ops' = [ops EXCEPT ![i].pc = "raised", ![i].cur = "WebSocketDisconnect"]
          /\ UNCHANGED <<activeConnections, websockets>>
    /\ UNCHANGED started
    /\ UNCHANGED <<sandboxVars, turnVars, historyVars, extractorVars, routerVars>>

\* disconnect, lines 33-35
Disconnect(i) ==
    /\ Starting(i)
    /\ \E c \in Clients :
        /\ ops' = [ops EXCEPT ![i] = [IdleOp EXCEPT !.kind = "disconnect", !.pc = "returned",
                                                    !.clientId = c]]
        /\ activeConnections' = Pop(activeConnections, c)
        /\ websockets' = Dropped(websockets, {c})
    /\ started' = i
    /\ UNCHANGED <<sandboxVars, turnVars, historyVars, extractorVars, routerVars>>

\* sendEvent, lines 44-52: no handle: return; else await ws.send_text(...)
SendEventCall(i) ==
    /\ Starting(i)
    /\ \E c \in Clients :
        ops' = [ops EXCEPT ![i] =
                  [IdleOp EXCEPT !.kind = "sendEvent", !.clientId = c,
                                 !.atStart = Keys(activeConnections),
                                 !.ws = websockets[c],
                                 !.pc = IF Registered(c) THEN "sending" ELSE "returned"]]
    /\ started' = i
    /\ UNCHANGED <<activeConnections, websockets>>
    /\ UNCHANGED <<sandboxVars, turnVars, historyVars, extractorVars, routerVars>>

\* sendEvent, lines 52-55: the send is done, or it raised and the client is dropped
SendEventDone(i) ==
    /\ ops[i].kind = "sendEvent" /\ ops[i].pc = "sending"
    /\ \/ /\ ops' = [ops EXCEPT ![i].pc = "returned", ![i].sent = <<ops[i].clientId>>]
          /\ UNCHANGED <<activeConnections, websockets>>
       \/ /\ ops' = [ops EXCEPT ![i].pc = "returned", ![i].failed = {ops[i].clientId}]
          /\ activeConnections' = Pop(activeConnections, ops[i].clientId)
          /\ websockets' = Dropped(websockets, {ops[i].clientId})
    /\ UNCHANGED started
    /\ UNCHANGED <<sandboxVars, turnVars, historyVars, extractorVars, routerVars>>

\* the for statement of line 60 asks the iterator for the next item: the loop
\* goes on with it, ends and lines 70-71 drop the clients collected, or the
\* RuntimeError of the iterator leaves broadcast
BroadcastStep(i, o) ==
    LET n == IterNext(o, activeConnections)
    IN IF n.outcome = "item"
       THEN /\ ops' = [ops EXCEPT ![i] =
                    [o EXCEPT !.pc = "sending", !.pos = n.pos, !.len = o.len - 1,
                              !.cur = activeConnections[n.pos]]]
            /\ UNCHANGED <<activeConnections, websockets>>
       ELSE IF n.outcome = "stop"
       THEN /\ ops' = [ops EXCEPT ![i] = [o EXCEPT !.pc = "returned", !.cur = ""]]
            /\ activeConnections' = PopAll(activeConnections, o.disconnected)
            /\ websockets' = Dropped(websockets, o.failed)
       ELSE /\ ops' = [ops EXCEPT ![i] = [o EXCEPT !.pc = "raised", !.cur = "RuntimeError"]]
            /\ UNCHANGED <<activeConnections, websockets>>

\* broadcast, lines 59-67, up to the first send
BroadcastCall(i) ==
    /\ Starting(i)
    /\ BroadcastStep(i, [IdleOp EXCEPT !.kind = "broadcast",
                                       !.atStart = Keys(activeConnections),
                                       !.used = Used(activeConnections),
                                       !.len = Used(activeConnections)])
    /\ started' = i
    /\ UNCHANGED <<sandboxVars, turnVars, historyVars, extractorVars, routerVars>>

\* broadcast, lines 67-71: the send in hand is done or raised (the client is
\* collected), then the loop asks for the next item
BroadcastSent(i) ==
    /\ ops[i].kind = "broadcast" /\ ops[i].pc = "sending"
    /\ \/ BroadcastStep(i, [ops[i] EXCEPT !.sent = Append(@, ops[i].cur)])
       \/ BroadcastStep(i, [ops[i] EXCEPT !.failed = @ \cup {ops[i].cur},
                                          !.disconnected = Append(@, ops[i].cur)])
    /\ UNCHANGED started
    /\ UNCHANGED <<sandboxVars, turnVars, historyVars, extractorVars, routerVars>>

ManagerNext ==
    \E i \in 1..MaxOps :
        \/ ConnectCall(i) \/ ConnectRegister(i) \/ Disconnect(i)
        \/ SendEventCall(i) \/ SendEventDone(i)
        \/ BroadcastCall(i) \/ BroadcastSent(i)

\* ------------------------------------------------------------------ specifications

SandboxInit ==
    SandboxStart /\ activeConnections = <<SbClient>> /\ ManagerIdle /\ TurnIdle /\ HistoryIdle
    /\ ExtractorIdle /\ RouterIdle

SpecSandbox == SandboxInit /\ [][SandboxNext]_vars

\* lines 49-55: isAvailable, a call without suspension point
IsAvailable ==
    /\ \E a \in ClientAccess :
        /\ dmClient' = a.client
        /\ available' = IF a.ok THEN "True" ELSE "False"
    /\ UNCHANGED <<runtimeVars, streamVars, clockVars, callVars, sbPc, allLogs, exitCode,
                   sbTrace, primary, cleanup, killed, activeConnections>>
    /\ UNCHANGED <<managerVars, turnVars, historyVars, extractorVars, routerVars>>

\* runs of the sandbox, and isAvailable asked at any point
SpecAvailable == SandboxInit /\ [][SandboxNext \/ IsAvailable]_vars

SandboxIdle ==
    /\ SandboxStart
    /\ daemonUp

TurnInit ==
    /\ SandboxIdle /\ HistoryIdle /\ ExtractorIdle /\ RouterIdle
    /\ activeConnections = <<"k1", "k2">> /\ ManagerIdle
    /\ dbConversations = <<>>
    /\ dbMessages = <<>>
    /\ fkEnforced \in BOOLEAN
    /\ txn = EmptyTxn
    /\ now = 1
    /\ lastUuid = 0
    /\ turn = [p \in Clients |-> IdleTurn]
    /\ turns = 0
    /\ endpoint = [p \in Clients |-> OpenEndpoint]

SpecTurn == TurnInit /\ [][TurnNext]_vars

\* the rows earlier turns of conversation 1 have left: turn i stored a user
\* message and then an assistant message, with a decision card where withCard
\* says so; the uuids were drawn in that order
EarlierTurns(n, withCard) ==
    [k \in 1..(2 * n) |->
        LET i == (k + 1) \div 2
            base == 1 + 3 * (i - 1)
        IN IF k % 2 = 1
           THEN Message(base + 1, 1, "user", <<"build a todo app">>, NoMetadata, k)
           ELSE IF i \in withCard
           THEN Message(base + 2, 1, "assistant", R_card,
                        [kind |-> "decisions",
                         decisions |-> parseDecisionCards(R_card, base + 2)], k)
           ELSE Message(base + 2, 1, "assistant", R_plain, NoMetadata, k)]

\* a conversation with up to MaxEarlier turns behind it; one more turn is run
DecisionInit ==
    /\ SandboxIdle /\ HistoryIdle /\ ManagerIdle /\ ExtractorIdle /\ RouterIdle
    /\ activeConnections = <<"k1">>
    /\ fkEnforced \in BOOLEAN
    /\ txn = EmptyTxn
    /\ \E n \in 1..MaxEarlier : \E withCard \in SUBSET (1..n) :
        /\ dbConversations = (1 :> DefaultPhase)
        /\ dbMessages = EarlierTurns(n, withCard)
        /\ now = 2 * n + 1
        /\ lastUuid = 1 + 3 * n
    /\ turn = [p \in Clients |-> IdleTurn]
    /\ turns = MaxTurns - 1
    /\ endpoint = [p \in Clients |-> IF p = "k1" THEN OpenEndpoint
                                     ELSE [OpenEndpoint EXCEPT !.state = "closed"]]

SpecDecision == DecisionInit /\ [][TurnNext]_vars

HistoryInit ==
    SandboxIdle /\ activeConnections = <<>> /\ ManagerIdle /\ TurnIdle /\ HistoryIdle
    /\ ExtractorIdle /\ RouterIdle

SpecHistory == HistoryInit /\ [][HistoryNext]_vars

ManagerInit ==
    SandboxIdle /\ activeConnections = <<>> /\ ManagerIdle /\ TurnIdle /\ HistoryIdle
    /\ ExtractorIdle /\ RouterIdle

SpecManager == ManagerInit /\ [][ManagerNext]_vars

\* one connection is open
EndpointInit ==
    /\ SandboxIdle /\ HistoryIdle /\ ManagerIdle /\ ExtractorIdle /\ RouterIdle
    /\ activeConnections = <<"k1">>
    /\ dbConversations = <<>>
    /\ dbMessages = <<>>
    /\ fkEnforced \in BOOLEAN
    /\ txn = EmptyTxn
    /\ now = 1
    /\ lastUuid = 0
    /\ turn = [p \in Clients |-> IdleTurn]
    /\ turns = 0
    /\ endpoint = [p \in Clients |-> IF p = "k1" THEN OpenEndpoint
                                     ELSE [OpenEndpoint EXCEPT !.state = "closed"]]

SpecEndpoint == EndpointInit /\ [][EndpointNext]_vars

\* turns and decision responses of one client, and reads of the transcripts
SpecTranscript == EndpointInit /\ [][TurnNext \/ GetConversation]_vars

\* any text of up to MaxParagraphs paragraphs, no call made yet
ExtractorInit ==
    /\ SandboxIdle /\ HistoryIdle /\ ManagerIdle /\ TurnIdle /\ RouterIdle
    /\ activeConnections = <<>>
    /\ \E n \in 1..MaxParagraphs :
          extractor \in [paragraphs : [1..n -> Paragraphs], calls : {<<>>}]

SpecExtractor == ExtractorInit /\ [][ExtractorNext]_vars

\* detectFinalize on a text with or without a trigger phrase
FinalizeInit ==
    /\ SandboxIdle /\ HistoryIdle /\ ManagerIdle /\ TurnIdle /\ RouterIdle
    /\ activeConnections = <<>>
    /\ extractor \in [paragraphs : [1..1 -> FinalizeParagraphs], calls : {<<>>}]

SpecFinalize == FinalizeInit /\ [][CallDetectFinalize]_vars

RouterInit ==
    /\ SandboxIdle /\ HistoryIdle /\ ManagerIdle /\ TurnIdle /\ ExtractorIdle /\ RouterIdle
    /\ activeConnections = <<>>

SpecRouter == RouterInit /\ [][RouterNext]_vars

\* a log text of n characters
Digits == <<"0", "1", "2", "3", "4", "5", "6", "7", "8", "9">>

Chars(n) == [i \in 1..n |-> Digits[(i % 10) + 1]]

\* a call whose container has printed n characters in one chunk and exited, and
\* that has removed it: the final notifications are to be sent
TailInit ==
    /\ HistoryIdle /\ ManagerIdle /\ TurnIdle /\ ExtractorIdle /\ RouterIdle
    /\ activeConnections = <<>>
    /\ daemonUp = TRUE /\ dmClient = "set" /\ available = "none"
    /\ calls = 1 /\ upAtStart = TRUE
    /\ \E name \in Names :
        /\ containerName = name
        /\ containers = [x \in Names |-> "absent"]
        /\ createdBy = [x \in Names |-> IF x = name THEN 1 ELSE 0]
    /\ \E n \in (TailCap - MaxOver)..(TailCap + MaxOver), code \in {0, 1} :
        /\ allLogs = Chars(n)
        /\ allLines = <<Chars(n)>>
        /\ exitStatus = code /\ exitCode = code
        /\ sbTrace = <<Progress(0, "Launching sandbox...", "running"),
                        RuntimeOp("images.get"), RuntimeOp("containers.run"),
                        Progress(1, "Running tests...", "running"),
                        ProgressChunk(Chars(n)), RuntimeOp("container.wait"),
                        RuntimeOp("containers.get"), RuntimeOp("container.remove")>>
    /\ produced = 1 /\ readerState = "ended" /\ lastSent = 1 /\ batch = <<>>
    /\ waited = 0 /\ elapsed = 1 /\ ranPast = FALSE
    /\ primary = "exit" /\ cleanup = "removed" /\ killed = FALSE
    /\ sbPc = "notifyDone"

SpecTail == TailInit /\ [][NotifyDone \/ NotifyResult]_vars

\* the start of a sandbox run, up to the start of its container, on the event
\* loop that runs the turns of a connected client
LoopNext ==
    \/ RunSandbox \/ ImagesGet \/ ImagesPull \/ ImagesPulled \/ ContainersRun
    \/ TurnNext

SpecLoop == EndpointInit /\ [][LoopNext]_vars

\* ------------------------------------------------------------------ sandbox claims

Notifications(trace) == SelectSeq(trace, LAMBDA e : e.type # "runtime_op")

RuntimeOps(trace) == SelectSeq(trace, LAMBDA e : e.type = "runtime_op")

IsChunk(e) == e.type = "execution_progress" /\ "log_chunk" \in DOMAIN e

RECURSIVE ChunkText(_)
ChunkText(trace) ==
    IF trace = <<>> THEN <<>>
    ELSE (IF IsChunk(Head(trace)) THEN Head(trace).log_chunk ELSE <<>>) \o ChunkText(Tail(trace))

HasMarker(logs) == \E i \in 1..Len(logs) : logs[i] = TIMEOUT_MARKER[1]

IsErrorLog(logs) == Len(logs) = 2 /\ logs[1] = "[ERROR] "

OwnContainerLeft == createdBy[containerName] = calls /\ containers[containerName] # "absent"

\* C1 (as claimed): a call whose container was still running after the configured
\* timeout returns exit code -1 with the timeout marker in its logs, the container
\* killed and gone from the runtime. Stated for calls during which the runtime
\* itself never failed.
C1_TimeoutEnforced ==
    (sbPc = "done" /\ ranPast /\ daemonUp /\ cleanup \in {"removed", "not_found"})
        => /\ exitCode = -1
           /\ HasMarker(allLogs)
           /\ killed
           /\ containers[containerName] = "absent"

\* C2 (as claimed): when the call has returned, the container it created is gone.
C2_RemovedOnReturn ==
    sbPc = "done" => ~OwnContainerLeft

\* C2 (amended): on every path the cleanup step has run before the notifications
\* and the return, and a container of the call is left only if the lookup or the
\* removal of the cleanup step itself failed.
C2_RemovedUnlessCleanupFailed ==
    sbPc \in {"notifyDone", "notifyResult", "done"}
        => /\ cleanup # "none"
           /\ OwnContainerLeft => cleanup \in {"get_failed", "remove_failed"}

C2_Witness ==
    /\ sbPc = "done" /\ primary = "error" /\ createdBy[containerName] = calls
    /\ cleanup = "removed" /\ containers[containerName] = "absent"

AnyFailure ==
    \/ primary = "error"
    \/ cleanup \in {"client_failed", "get_failed", "remove_failed"}
    \/ killed /\ containers[containerName] = "running"

Completed(trace) ==
    LET n == Notifications(trace)
    IN /\ Len(n) >= 2
       /\ n[Len(n)].type = "test_result"
       /\ n[Len(n) - 1].type = "execution_progress"
       /\ n[Len(n) - 1].step_index = 2

\* C3 (as claimed): any failure, of kill or removal too, ends with exit code -1,
\* the error message as log text, and both final notifications.
C3_FailureGivesErrorResult ==
    (sbPc = "done" /\ AnyFailure)
        => exitCode = -1 /\ IsErrorLog(allLogs) /\ Completed(sbTrace)

\* C3 (amended): no exception leaves runSandbox; a failure inside the try block
\* gives exit code -1 and "[ERROR] <message>", a timeout -1 and the marker, an
\* exit the container's status and the joined lines, whatever kill and removal
\* did; both final notifications are sent, carrying that result.
C3_NoEscape ==
    /\ sbPc # "raised"
    /\ sbPc = "done" =>
        /\ primary = "error" => exitCode = -1 /\ IsErrorLog(allLogs)
        /\ primary = "timeout" => exitCode = -1 /\ allLogs = TIMEOUT_MARKER
        /\ primary = "exit" => exitCode = exitStatus /\ allLogs = Join(allLines)
        /\ primary # "none"
        /\ Completed(sbTrace)
        /\ sbTrace[Len(sbTrace)] = TestResult(exitCode, allLogs)

C3_Witness ==
    /\ sbPc = "done" /\ primary = "exit" /\ exitCode = 0
    /\ cleanup = "remove_failed" /\ containers[containerName] = "exited"

\* C4 (as claimed, for the runs that end with the container's own exit code): the
\* log chunks sent, joined in the order sent, are the logs of the result.
C4_ChunksEqualLogs ==
    (sbPc = "done" /\ primary = "exit") => ChunkText(sbTrace) = allLogs

\* C5 (as claimed): with the runtime unreachable when the call starts, nothing is
\* sent and no image or container operation is attempted while the call runs.
C5_FailFast ==
    (InFlight /\ ~upAtStart) => sbTrace = <<>>

\* the completion notification of the call
Completion(trace) == Notifications(trace)[Len(Notifications(trace)) - 1]

\* C12: a returned call has sent status passed exactly when its exit code is 0; a
\* call that saw its container exit returns the container's status, with code 0
\* without the timeout marker in the logs; a timeout or an error returns -1 and
\* status failed.
C12_ClassifiedByExitCode ==
    sbPc = "done" =>
        /\ exitCode = 0 => Completion(sbTrace).status = "passed"
        /\ exitCode # 0 => Completion(sbTrace).status = "failed"
        /\ primary = "exit" => exitCode = exitStatus
        /\ (primary = "exit" /\ exitStatus = 0) =>
              (exitCode = 0 /\ Completion(sbTrace).status = "passed" /\ ~HasMarker(allLogs))
        /\ primary \in {"timeout", "error"} =>
              (exitCode = -1 /\ Completion(sbTrace).status = "failed")

\* a call whose container exited with a code other than 0 has returned, after a
\* call that passed or not
C12_Witness ==
    /\ sbPc = "done" /\ primary = "exit" /\ exitStatus = 1 /\ exitCode = 1
    /\ Completion(sbTrace).status = "failed"

LastOp(trace) == RuntimeOps(trace)[Len(RuntimeOps(trace))].op

CleanupWasLast ==
    /\ cleanup # "none"
    /\ cleanup \in {"get_failed", "not_found"} => LastOp(sbTrace) = "containers.get"
    /\ cleanup \in {"removed", "remove_failed"} => LastOp(sbTrace) = "container.remove"
    /\ sbPc = "done" => sbTrace[Len(sbTrace)] = TestResult(exitCode, allLogs)

CleanupKeepsResult ==
    /\ sbPc = "finally" =>
          (sbPc' \in {"finally", "notifyDone"} /\ exitCode' = exitCode /\ allLogs' = allLogs)
    /\ sbPc \in {"notifyDone", "notifyResult"} =>
          (RuntimeOps(sbTrace') = RuntimeOps(sbTrace)
           /\ exitCode' = exitCode /\ allLogs' = allLogs)

\* C13: once the try block of a call is left, the lookup and forced removal of the
\* call's container is the last step that touches the runtime; whatever it does,
\* it leaves the exit code and the log text as they were, and these are what the
\* call sends and returns.
C13_RemovalLastAndSwallowed ==
    /\ [](sbPc \in {"notifyDone", "notifyResult", "done"} => CleanupWasLast)
    /\ [][CleanupKeepsResult]_vars

\* the container of a call that timed out could not be removed, and the call has
\* returned the timeout result
C13_Witness ==
    /\ sbPc = "done" /\ primary = "timeout" /\ cleanup = "remove_failed"
    /\ exitCode = -1 /\ allLogs = TIMEOUT_MARKER

\* C14 (as claimed): a call has created at most one container, and the name of a
\* call is not the name under which an earlier call created a container.
C14_OneContainerUniqueName ==
    sbPc # "idle" =>
        /\ Cardinality({n \in Names : createdBy[n] = calls}) <= 1
        /\ createdBy[containerName] \in {0, calls}

\* C23 (as claimed): isAvailable has returned True only if the daemon answered a
\* ping of this manager.
C23_AvailableOnlyIfPinged == available = "True" => dmClient = "set"

\* C24 (as claimed): between two flushes of _streamLogs the chunks sent so far,
\* joined in the order sent, are the lines appended up to the flush index: every
\* line below lastSent is in exactly one chunk, in append order.
C24_FlushesExactSegments ==
    sbPc \in {"loopTest", "flushSlice", "awaitStream"}
        => ChunkText(sbTrace) = Join(SubSeq(allLines, 1, lastSent))

\* C25 (as claimed): the timed wait runs while the logs are streamed, so during
\* _streamLogs the container is never found running later than the timeout.
C25_TimeoutCoversStreaming ==
    sbPc \in {"loopTest", "flushSlice", "flushLen", "awaitStream"} => ~ranPast

\* C26 (as claimed): the logs of a call that timed out are the output collected
\* before the timeout followed by the timeout marker.
C26_MarkerAppended ==
    (sbPc = "done" /\ primary = "timeout") => allLogs = Join(allLines) \o TIMEOUT_MARKER

\* ------------------------------------------------------------------ ConnectionManager claims

\* C15 (as claimed): no call of the ConnectionManager raises because the mapping
\* was changed while the call was suspended.
C15_NoRaiseOnInterleaving ==
    \A i \in 1..MaxOps : ~(ops[i].pc = "raised" /\ ops[i].cur = "RuntimeError")

Returns(i) == ops[i].pc # "returned" /\ ops'[i].pc = "returned"

BestEffortStep(i) ==
    /\ ops'[i].kind \in {"sendEvent", "broadcast"} => ops'[i].pc # "raised"
    /\ (Returns(i) /\ ops'[i].kind \in {"sendEvent", "broadcast"}) =>
          /\ ops'[i].failed \cap Keys(activeConnections') = {}
          /\ ops'[i].kind = "broadcast" =>
                ops'[i].atStart \subseteq SetOf(ops'[i].sent) \cup ops'[i].failed
          /\ (ops'[i].kind = "sendEvent" /\ ops'[i].clientId \notin ops'[i].atStart) =>
                (ops'[i].sent = <<>> /\ activeConnections' = activeConnections)

\* C16 (as claimed): sendEvent and broadcast never raise; when one returns, the
\* clients whose send failed are not registered, a broadcast has sent to or
\* dropped every client that was registered when it started, and a sendEvent to a
\* client not registered has sent nothing and changed nothing.
C16_BestEffort ==
    [][\A i \in 1..MaxOps : BestEffortStep(i)]_vars

\* ------------------------------------------------------------------ independence of conversations

MessagesOf(db, cid) == SelectSeq(db, LAMBDA m : m.conversationId = cid)

ConversationIds(db, convs) == DOMAIN convs \cup {db[i].conversationId : i \in 1..Len(db)}

KeptRoles == {"user", "assistant", "system", "hidden"}

\* a step of the turn of p leaves what is stored of every other conversation as
\* it was, and a history it builds has the length of the conversation's own rows
IndependentStep(p) ==
    turn'[p] # turn[p] =>
        /\ \A cid \in ConversationIds(dbMessages, dbConversations)
                        \cup ConversationIds(dbMessages', dbConversations') :
              cid # turn'[p].conversationId =>
                  /\ MessagesOf(dbMessages', cid) = MessagesOf(dbMessages, cid)
                  /\ cid \in DOMAIN dbConversations' <=> cid \in DOMAIN dbConversations
                  /\ cid \in DOMAIN dbConversations =>
                        dbConversations'[cid] = dbConversations[cid]
        /\ (turn[p].pc = "history" /\ turn'[p].pc = "llm") =>
              Len(turn'[p].history) =
                  1 + Cardinality({m \in Visible(p, turn[p].conversationId) :
                                      m.role \in KeptRoles})

\* C22 (as claimed): under any interleaving, a step of a turn on one conversation
\* changes neither the committed messages nor the phase of any other
\* conversation, and the history it builds holds only its conversation's messages.
C22_ConversationsIndependent == [][\A p \in Clients : IndependentStep(p)]_vars

\* ------------------------------------------------------------------ transcript claims

\* the entries of role user with this content in a history
UserEntries(history, content) ==
    {i \in 1..Len(history) : history[i] = [role |-> "user", content |-> content]}

\* C11: no message of a transcript returned by getConversation has role hidden,
\* and a history, when it is built for the model, has one entry of role user for
\* every message of the conversation that is hidden or of role user, content by
\* content.
HiddenSentAsUser(p) ==
    (turn[p].pc = "history" /\ turn'[p].pc = "llm") =>
        \A m \in Visible(p, turn[p].conversationId) :
            m.role = "hidden" =>
                Cardinality(UserEntries(turn'[p].history, m.content)) =
                    Cardinality({n \in Visible(p, turn[p].conversationId) :
                                    n.role \in {"user", "hidden"} /\ n.content = m.content})

C11_HiddenInHistoryOnly ==
    /\ [](\A i \in 1..Len(transcript.messages) : transcript.messages[i].role # "hidden")
    /\ [][\A p \in Clients : HiddenSentAsUser(p)]_vars

\* a decision was resolved and committed, its history held the hidden message as
\* user, and the transcript read afterwards has the later messages
C11_Witness ==
    /\ transcript.status = 200
    /\ \E m \in SetOf(dbMessages) :
          /\ m.role = "hidden" /\ m.conversationId = transcript.conversationId
          /\ \E i \in 1..Len(transcript.messages) : transcript.messages[i].id > m.id
          /\ \E p \in Clients :
                /\ turn[p].pc = "returned" /\ turn[p].op = "decision_response"
                /\ turn[p].conversationId = m.conversationId
                /\ Cardinality(UserEntries(turn[p].history, m.content)) = 2

\* ------------------------------------------------------------------ extractor claims

\* C19 (as claimed): two calls of the same extractor function on the same text
\* return equal results, decision ids included.
C19_Deterministic ==
    \A i, j \in 1..Len(extractor.calls) :
        extractor.calls[i].fn = extractor.calls[j].fn =>
            extractor.calls[i] = extractor.calls[j]

\* the well-formed blocks of the text
Blocks == {i \in 1..Len(extractor.paragraphs) : extractor.paragraphs[i].kind = "block"}

DecisionOf(c, d) ==
    /\ d.question = <<c.question>>
    /\ Len(d.options) = 2
    /\ d.options[1] = [label |-> <<c.labelA>>, value |-> "option_a",
                       description |-> <<c.descriptionA>>]
    /\ d.options[2] = [label |-> <<c.labelB>>, value |-> "option_b",
                       description |-> <<c.descriptionB>>]

\* C20 (as claimed): parseDecisionCards returns no decision for a text without
\* a well-formed block, and for a text with exactly one it returns one decision
\* with that block's question and its two options, labels and descriptions.
C20_OneBlockOneDecision ==
    \A i \in 1..Len(extractor.calls) :
        extractor.calls[i].fn = "parseDecisionCards" =>
            /\ Blocks = {} => extractor.calls[i].decisions = <<>>
            /\ Cardinality(Blocks) = 1 =>
                  /\ Len(extractor.calls[i].decisions) = 1
                  /\ \A b \in Blocks : DecisionOf(extractor.paragraphs[b].card,
                                                   extractor.calls[i].decisions[1])

\* C21: detectFinalize returns true for a text that holds a trigger phrase in
\* any mix of letter case and false for a text that holds none.
C21_FinalizeIffTrigger ==
    \A i \in 1..Len(extractor.calls) :
        extractor.calls[i].fn = "detectFinalize" =>
            extractor.calls[i].finalize =
                (\E k \in 1..Len(extractor.paragraphs) :
                    extractor.paragraphs[k].kind = "trigger")

\* detectFinalize has answered true for a trigger phrase that is not in lower case
C21_Witness ==
    /\ extractor.calls # <<>>
    /\ extractor.calls[1].fn = "detectFinalize" /\ extractor.calls[1].finalize
    /\ \E j \in 1..Len(TriggerLetters) :
          Contains(extractor.paragraphs[1].text, CaseMix(TriggerLetters[j], "odd_upper"))

\* ------------------------------------------------------------------ endpoint claims

\* C17 (as claimed): after a malformed frame the endpoint has sent an error
\* notification to the client and its receive loop is still running.
C17_MalformedReported ==
    \A p \in Clients :
        endpoint[p].frame \in Frames =>
            /\ endpoint[p].state = "receiving"
            /\ \E i \in 1..Len(endpoint[p].reply) : endpoint[p].reply[i].type = "error"

\* the turn of p ended with the provider's call failing
ProviderFailed(p) ==
    /\ turn[p].pc = "failed" /\ turn[p].op = "user_message"
    /\ turn[p].error \in ProviderErrors

\* C18 (as claimed): two turns that sent the same messages to the provider and
\* failed there, whatever the text of the provider's exception, put the same
\* 'error' notification on the wire.
C18_ErrorIndependentOfProvider ==
    \A p, q \in Clients :
        (ProviderFailed(p) /\ ProviderFailed(q) /\ turn[p].history = turn[q].history) =>
            turn[p].emitted[Len(turn[p].emitted)] = turn[q].emitted[Len(turn[q].emitted)]

\* ------------------------------------------------------------------ turn claims

Ended(p) == turn[p].pc \in {"returned", "failed"}

Count(seq, ev) == Cardinality({i \in 1..Len(seq) : seq[i] = ev})

FinalizeEvent == PhaseChange("negotiation", "architecture")

\* the rows a commit step of client p adds
Added == SubSeq(dbMessages', Len(dbMessages) + 1, Len(dbMessages'))

RowsOfTurn(p, added) ==
    LET k == Len(added)
    IN /\ k >= 2
       /\ added[k].role = "assistant" /\ added[k].content = turn[p].assistantContent
       /\ added[k - 1].role = "user" /\ added[k - 1].content = turn[p].userContent
       /\ \A i \in 1..k : added[i].conversationId = turn[p].conversationId
       /\ IF turn[p].op = "user_message" THEN k = 2
          ELSE k = 3 /\ added[1].role = "hidden"

PhaseOfTurn(p) ==
    LET cid == turn[p].conversationId
    IN /\ \A c \in DOMAIN dbConversations' \ {cid} :
            c \in DOMAIN dbConversations /\ dbConversations'[c] = dbConversations[c]
       /\ DOMAIN dbConversations \subseteq DOMAIN dbConversations'
       /\ cid \in DOMAIN dbConversations' =>
            dbConversations'[cid] =
                IF turn[p].shouldFinalize THEN "architecture"
                ELSE IF cid \in DOMAIN dbConversations THEN dbConversations[cid]
                ELSE "negotiation"

\* C6 (as claimed): the stored messages and phases change only in the single commit of a turn,
\* which writes the turn's user message, its assistant message and its phase
\* update together; a turn that fails writes nothing.
C6_TurnAtomic ==
    [][ (dbMessages' # dbMessages \/ dbConversations' # dbConversations) =>
          \E p \in Clients :
              /\ turn[p].pc = "commit" /\ turn'[p].pc = "returned"
              /\ Len(dbMessages') >= Len(dbMessages)
              /\ SubSeq(dbMessages', 1, Len(dbMessages)) = dbMessages
              /\ RowsOfTurn(p, Added)
              /\ PhaseOfTurn(p) ]_vars

\* C7 (as claimed): once a turn whose reply matches a finalize trigger has ended,
\* the stored phase of its conversation is architecture and the turn has emitted
\* exactly one phase_change negotiation -> architecture; a turn whose reply
\* matches none has emitted no such notification.
C7_FinalizePersistsAndNotifies ==
    \A p \in Clients :
        Ended(p) =>
            IF turn[p].shouldFinalize
            THEN /\ turn[p].conversationId \in DOMAIN dbConversations
                 /\ dbConversations[turn[p].conversationId] = "architecture"
                 /\ Count(turn[p].emitted, FinalizeEvent) = 1
            ELSE Count(turn[p].emitted, FinalizeEvent) = 0

\* C27 (as claimed): a phase_change has been emitted only when the phase update is
\* committed: whenever a turn has emitted one, the stored phase of its conversation
\* is architecture.
C27_NotifiedAfterCommit ==
    \A p \in Clients :
        Count(turn[p].emitted, FinalizeEvent) > 0
            => /\ turn[p].conversationId \in DOMAIN dbConversations
               /\ dbConversations[turn[p].conversationId] = FinalizePhase

\* the phase of its conversation as the session of client p reads it: the stored
\* one, the default of a conversation created in this transaction, or none
PhaseSeen(p) ==
    LET cid == turn[p].conversationId
    IN IF cid \in DOMAIN dbConversations THEN dbConversations[cid]
       ELSE IF ConversationVisible(p, cid) THEN DefaultPhase
       ELSE "none"

\* the finalize step of client p names the phase it found and the phase it writes
NamesPhases(p) ==
    (turn[p].pc = "finalize" /\ turn'[p].pc = "commit"
        /\ Len(turn'[p].emitted) > Len(turn[p].emitted))
    => LET e == turn'[p].emitted[Len(turn'[p].emitted)]
       IN /\ e.from_phase = PhaseSeen(p)
          /\ e.to_phase = turn'[p].pendingPhase

\* C28 (as claimed): a phase_change emitted by a turn carries as from_phase the
\* phase the conversation had before the turn and as to_phase the phase the turn
\* writes, whatever the starting phase, a missing conversation included.
C28_PhaseNamesTrue == [][\A p \in Clients : NamesPhases(p)]_vars

\* the phases in their order (pipeline.py, lines 5-8)
PhaseOrder == <<"negotiation", "architecture", "execution", "evaluation", "deployment">>

Rank(phase) == CHOOSE i \in 1..Len(PhaseOrder) : PhaseOrder[i] = phase

\* C8: a stored conversation keeps a phase of the order and never moves to an
\* earlier one, and its phase changes only in the commit of an orchestrator turn
\* in which finalize fired.
C8_PhaseMonotone ==
    [][ \A c \in DOMAIN dbConversations :
          /\ c \in DOMAIN dbConversations'
          /\ dbConversations'[c] \in SetOf(PhaseOrder)
          /\ Rank(dbConversations'[c]) >= Rank(dbConversations[c])
          /\ dbConversations'[c] # dbConversations[c] =>
                \E p \in Clients :
                    /\ turn[p].pc = "commit" /\ turn'[p].pc = "returned"
                    /\ turn[p].conversationId = c /\ turn[p].shouldFinalize ]_vars

\* two turns on one conversation have both fired finalize
C8_Witness ==
    \E p, q \in Clients :
        /\ p # q
        /\ turn[p].pc = "returned" /\ turn[q].pc = "returned"
        /\ turn[p].shouldFinalize /\ turn[q].shouldFinalize
        /\ turn[p].conversationId = turn[q].conversationId
        /\ turn[p].conversationId \in DOMAIN dbConversations
        /\ dbConversations[turn[p].conversationId] = "architecture"

\* the decision id occurs in no assistant message the search looked at
UnknownId(p) ==
    \A i \in 1..Len(turn[p].recentMessages) :
        LET m == turn[p].recentMessages[i]
        IN m.metadata.kind = "decisions" =>
              \A j \in 1..Len(m.metadata.decisions) :
                  m.metadata.decisions[j].id # turn[p].decisionId

ChoiceText(p) == <<"I choose: ", turn[p].selectedValue>>

HasRow(rws, role, cid, content) ==
    \E i \in 1..Len(rws) :
        rws[i].role = role /\ rws[i].conversationId = cid /\ rws[i].content = content

\* C9 (as claimed): a decision response whose id is in no searched message takes the raw
\* selected value as the label and the turn runs on "I choose: <selectedValue>":
\* the hidden message and the user message with that content are in the session
\* while the turn runs and in the store once it has returned, and the only
\* failures are those of the store and of the model.
C9_UnknownIdFallsBack ==
    \A p \in Clients :
        (turn[p].op = "decision_response" /\ UnknownId(p)) =>
            /\ turn[p].selectedLabel = <<turn[p].selectedValue>>
            /\ turn[p].userContent = ChoiceText(p)
            /\ turn[p].pc = "failed" =>
                  turn[p].error \in {"IntegrityError", "StaleDataError", "database error"}
                                    \cup ProviderErrors
            /\ turn[p].pc # "failed" =>
                  HasRow(turn[p].pending, "hidden", turn[p].conversationId, ChoiceText(p))
            /\ turn[p].pc \in {"history", "llm", "emit", "finalize", "commit"} =>
                  HasRow(turn[p].pending, "user", turn[p].conversationId, ChoiceText(p))
            /\ turn[p].pc = "returned" =>
                  /\ HasRow(dbMessages, "hidden", turn[p].conversationId, ChoiceText(p))
                  /\ HasRow(dbMessages, "user", turn[p].conversationId, ChoiceText(p))

\* ------------------------------------------------------------------ history claims

Kept(c) ==
    {m \in SetOf(stored) :
        m.conversationId = c /\ m.role \in {"user", "assistant", "system", "hidden"}}

SentRole(m) == IF m.role = "hidden" THEN "user" ELSE m.role

\* C10: the history is the system message followed by one entry for every stored
\* message of the conversation of role user, assistant, system or hidden, hidden
\* sent as user, by increasing creation time, and no other entry.
C10_HistoryShape ==
    builtHistory # <<>> =>
        /\ builtHistory[1] = [role |-> "system", content |-> COFOUNDER_SYSTEM_PROMPT]
        /\ Len(builtHistory) = 1 + Cardinality(Kept(1))
        /\ \A m \in Kept(1) :
              \E i \in 2..Len(builtHistory) :
                  builtHistory[i] = [role |-> SentRole(m), content |-> m.content]
        /\ \A i, j \in 2..Len(builtHistory) :
              i < j =>
                 \A m, n \in Kept(1) :
                    (m.content = builtHistory[i].content /\ n.content = builtHistory[j].content)
                        => m.createdAt <= n.createdAt

\* a history built over a hidden message, a message of another role and a message
\* of another conversation
C10_Witness ==
    /\ builtHistory # <<>>
    /\ \E a, b, c \in SetOf(stored) :
          /\ a.conversationId = 1 /\ a.role = "hidden"
          /\ b.conversationId = 1 /\ b.role = "tool"
          /\ c.conversationId = 2

\* the stored assistant messages of a conversation, and how many of them are
\* newer than a message
AssistantOf(cid) ==
    {m \in SetOf(dbMessages) : m.conversationId = cid /\ m.role = "assistant"}

NewerThan(m) == Cardinality({x \in AssistantOf(m.conversationId) : x.createdAt > m.createdAt})

\* the decisions with the id did in the assistant messages of cid that have
\* fewer than width newer ones
DecisionsIn(cid, did, width) ==
    UNION {{x \in SetOf(m.metadata.decisions) : x.id = did} :
        m \in {a \in AssistantOf(cid) :
                  a.metadata.kind = "decisions" /\ NewerThan(a) < width}}

\* the labels of their options with the value sel
LabelsIn(cid, did, sel, width) ==
    {o.label : o \in {x \in UNION {SetOf(d.options) : d \in DecisionsIn(cid, did, width)} :
                        x.value = sel}}

\* the step of handleDecisionResponse for client p: with a decision in the five
\* newest assistant messages and an option of the selected value, the label is
\* that option's; with a decision held only by older messages, the selected value
\* itself; the hidden message and the input of the turn are "I choose: <label>"
ChoiceResolved(p) ==
    (turns' = turns + 1 /\ turn'[p].op = "decision_response")
    => LET t == turn'[p]
           inWindow == LabelsIn(t.conversationId, t.decisionId, t.selectedValue, 5)
           anywhere == LabelsIn(t.conversationId, t.decisionId, t.selectedValue,
                                Len(dbMessages) + 1)
       IN /\ inWindow # {} => t.selectedLabel \in inWindow
          /\ (inWindow = {} /\ anywhere # {}) => t.selectedLabel = <<t.selectedValue>>
          /\ t.userContent = <<"I choose: ">> \o t.selectedLabel
          /\ t.pc # "failed" =>
                HasRow(t.pending, "hidden", t.conversationId, t.userContent)

\* C29: handleDecisionResponse resolves the label from the 5 newest assistant
\* messages of the conversation and no older one, and the turn that follows runs
\* on the content "I choose: <label>" of the hidden message.
C29_LabelFromRecentWindow == [][\A p \in Clients : ChoiceResolved(p)]_vars

\* a decision response resolved from the oldest of the five newest assistant
\* messages, an older assistant message being stored
C29_Witness ==
    \E p \in Clients :
        /\ turn[p].op = "decision_response" /\ turn[p].pc = "saveUser"
        /\ turn[p].selectedLabel = <<"Postgres">>
        /\ \E m \in AssistantOf(turn[p].conversationId) :
              /\ NewerThan(m) = 4
              /\ m.metadata.kind = "decisions"
              /\ \E i \in 1..Len(m.metadata.decisions) :
                    m.metadata.decisions[i].id = turn[p].decisionId
        /\ Cardinality(AssistantOf(turn[p].conversationId)) > 5

\* C30 (as claimed): of two messages with the same creation time, the history is
\* built with the one inserted first before the other (ids count the inserts).
C30_TiesInInsertionOrder ==
    builtHistory # <<>> =>
        \A i, j \in 1..Len(rows) :
            (i < j /\ rows[i].createdAt = rows[j].createdAt) => rows[i].id < rows[j].id

\* 2 to the power n
RECURSIVE Pow2(_)
Pow2(n) == IF n = 0 THEN 1 ELSE 2 * Pow2(n - 1)

\* an error that says the provider limits the rate of requests
IsRateLimit(e) == e = RateLimited

\* C31 (as claimed): a call makes at most `retries` attempts; an attempt is
\* followed by another only after a rate-limit failure, so any other failure is
\* the last one and is the error raised; the i-th delay is the base doubled i - 1
\* times, capped at the maximum; a call that has raised raises the last failure.
C31_RetriesOnlyOnRateLimit ==
    /\ Len(router.failures) <= router.retries
    /\ \A i \in 1..Len(router.failures) :
          ~IsRateLimit(router.failures[i])
              => i = Len(router.failures) /\ router.pc = "raised"
    /\ \A i \in 1..Len(router.delays) :
          router.delays[i] = Min(router.base * Pow2(i - 1), router.max)
    /\ router.pc = "raised" => router.error = router.failures[Len(router.failures)]

\* a turn of client p is under way: its coroutine has a next step
UnderWay(p) == turn[p].pc \in {"saveUser", "history", "llm", "emit", "finalize", "commit"}

\* C32 (as claimed): while a sandbox run pulls its image, a turn that is under way
\* can take its next step.
C32_PullDoesNotBlock ==
    (sbPc = "pulling" /\ \E p \in Clients : UnderWay(p)) => ENABLED TurnNext

\* the place of a notification in the protocol of a run
Stage(e) ==
    IF e.type = "test_result" THEN 5
    ELSE IF e.step_index = 2 THEN 4
    ELSE IF IsChunk(e) THEN 3
    ELSE IF e.step_index = 1 THEN 2
    ELSE IF e.step_label = "Pulling sandbox image..." THEN 1
    ELSE 0

\* the runtime operation recorded just before the i-th entry of a trace
OpBefore(trace, i) ==
    IF i > 1 /\ trace[i - 1].type = "runtime_op" THEN trace[i - 1].op ELSE "none"

\* C33: the notifications of a call come in the order launching, pulling (at
\* most once, after the image lookup), running (once, right after the container
\* was started), the log chunks, one completion after the removal attempt, one
\* test_result carrying the exit code; a returned call has sent both final ones.
C33_ProtocolOrder ==
    LET n == Notifications(sbTrace)
    IN /\ n # <<>> => Stage(n[1]) = 0
       /\ \A i \in 1..(Len(n) - 1) :
             \/ Stage(n[i]) < Stage(n[i + 1])
             \/ Stage(n[i]) = 3 /\ Stage(n[i + 1]) = 3
       /\ \A i \in 1..Len(sbTrace) :
             /\ sbTrace[i].type # "runtime_op" /\ Stage(sbTrace[i]) = 1
                   => OpBefore(sbTrace, i) = "images.get"
             /\ sbTrace[i].type # "runtime_op" /\ Stage(sbTrace[i]) = 2
                   => OpBefore(sbTrace, i) = "containers.run"
             /\ sbTrace[i].type # "runtime_op" /\ Stage(sbTrace[i]) = 3
                   => \E j \in 1..(i - 1) :
                         sbTrace[j].type # "runtime_op" /\ Stage(sbTrace[j]) = 2
             /\ sbTrace[i].type # "runtime_op" /\ Stage(sbTrace[i]) >= 4
                   => cleanup # "none" /\ RuntimeOps(SubSeq(sbTrace, i, Len(sbTrace))) = <<>>
       /\ sbPc = "done" =>
             /\ Len(n) >= 3
             /\ Stage(n[Len(n) - 1]) = 4
             /\ Stage(n[Len(n)]) = 5
             /\ n[Len(n)].exit_code = exitCode

\* a returned call that pulled the image, started its container and sent two
\* log chunks
C33_Witness ==
    /\ sbPc = "done" /\ primary = "exit"
    /\ LET n == Notifications(sbTrace)
       IN /\ Len(n) = 7
          /\ Stage(n[2]) = 1 /\ Stage(n[3]) = 2 /\ Stage(n[4]) = 3 /\ Stage(n[5]) = 3

\* the test_result notifications of a trace
TestResults(trace) == SelectSeq(trace, LAMBDA e : e.type = "test_result")

\* C34: the stderr_tail of a test_result is the last min(len(logs), 2000)
\* characters of the returned log text.
C34_TailIsCappedSuffix ==
    \A i \in 1..Len(TestResults(sbTrace)) :
        LET tail == TestResults(sbTrace)[i].stderr_tail
            m == Min(Len(allLogs), 2000)
        IN /\ Len(tail) = m
           /\ tail = SubSeq(allLogs, Len(allLogs) - m + 1, Len(allLogs))

\* a call has returned a log text longer than the cap and sent its last 2000
\* characters
C34_Witness ==
    /\ sbPc = "done" /\ Len(allLogs) > 2000
    /\ Len(TestResults(sbTrace)) = 1
    /\ Len(TestResults(sbTrace)[1].stderr_tail) = 2000

\* the cleanup step removes a container only if the call in flight created it
RemovesOwn ==
    (sbPc = "finally" /\ containers'[containerName] # containers[containerName])
        => createdBy[containerName] = calls

\* C35 (as claimed): the cleanup step of a call never removes a container that
\* another call created.
C35_CleanupRemovesOwnOnly == [][RemovesOwn]_vars

\* the conversation ids a turn has announced as new
Announced(p) ==
    {turn[p].emitted[i].conversation_id :
        i \in {j \in 1..Len(turn[p].emitted) :
                  "conversation_id" \in DOMAIN turn[p].emitted[j]}}

\* C36 (as claimed): once the handling of a user_message has ended, with or
\* without an error, the conversation whose id it announced is stored.
C36_AnnouncedIsPersisted ==
    \A p \in Clients : Ended(p) => Announced(p) \subseteq DOMAIN dbConversations

\* the rows of the session of client p that carry the choice of its turn
ChoiceRows(p) ==
    {i \in 1..Len(turn[p].pending) : turn[p].pending[i].content = turn[p].userContent}

\* C37 (as claimed): a decision response that has returned has added two
\* messages, the hidden one with the choice and the assistant reply: the choice
\* is stored once, and in no message the transcript shows.
C37_ChoiceStoredOnce ==
    \A p \in Clients :
        (turn[p].op = "decision_response" /\ turn[p].pc = "returned") =>
            /\ Len(turn[p].pending) = 2
            /\ Cardinality(ChoiceRows(p)) = 1
            /\ \A i \in ChoiceRows(p) : turn[p].pending[i].role = "hidden"

\* ------------------------------------------------------------------ C38

\* the sendEvent call i is suspended in its send, on a websocket that is no
\* longer the one registered under its client id: a connect registered another
\* one under the id meanwhile
Superseded(i) ==
    /\ ops[i].kind = "sendEvent" /\ ops[i].pc = "sending"
    /\ Registered(ops[i].clientId)
    /\ websockets[ops[i].clientId] # ops[i].ws

\* C38: a failed send drops only the websocket that failed: when the send of a
\* suspended sendEvent fails after another websocket was registered under the
\* same client id, that websocket is still registered once the failure is
\* handled
C38_FailedSendKeepsNewHandle ==
    [][\A i \in 1..MaxOps :
          (Superseded(i) /\ ops'[i].failed # {})
          => /\ ops[i].clientId \in Keys(activeConnections')
             /\ websockets'[ops[i].clientId] = websockets[ops[i].clientId]]_vars

====
